---- MODULE Spec2Model ----
(***************************************************************************)
(* Model of contui.css: the CSS lexer (css/lexer.py), the parser           *)
(* (css/parser.py) and the CSSStylesheet object model (css/parser.py).     *)
(*                                                                         *)
(* A codepoint is a string.  ASCII codepoints are themselves; codepoints   *)
(* outside ASCII and control codepoints are written "U+XXXX".  A text is a *)
(* sequence of codepoints, as Lexer.source is a list of one-codepoint      *)
(* strings.  Python's None is the string None below; the lexer's sentinel  *)
(* "_error_" is the string ERROR.                                          *)
(***************************************************************************)
EXTENDS Integers, Sequences, FiniteSets, TLC

None == "<None>"
ERROR == "_error_"
REPLACEMENT_CHAR == "U+FFFD"
BSLASH == "\\"
DQUOTE == "\""
SQUOTE == "'"
NL == "\n"
TAB == "\t"

(***************************************************************************)
(* Character classes of class Check                                        *)
(***************************************************************************)
AsciiLetter ==
  {"a","b","c","d","e","f","g","h","i","j","k","l","m","n","o","p","q","r",
   "s","t","u","v","w","x","y","z","A","B","C","D","E","F","G","H","I","J",
   "K","L","M","N","O","P","Q","R","S","T","U","V","W","X","Y","Z"}

\* codepoints >= U+0080 of the model: a letter, a non-letter, the replacement
NonAscii == {"U+00E9", "U+20AC", REPLACEMENT_CHAR}

Digit == {"0","1","2","3","4","5","6","7","8","9"}

HexLetter == {"a","b","c","d","e","f","A","B","C","D","E","F"}

\* range(0,8), tab, range(0xE,0x1F), 0x7F
NonPrintable == {"U+0001", "U+0007", TAB, "U+000E", "U+001E", "U+007F"}

Check_letter(current) == current \in AsciiLetter \cup {"U+00E9"}

Check_non_ascii(current) == current \in NonAscii

Check_ident_start(current) ==
  current /= None /\ (Check_letter(current) \/ Check_non_ascii(current) \/ current = "_")

Check_digit(current) == current \in Digit

Check_whitespace(current) == current \in {TAB, NL, " "}

Check_hex(current) == current \in Digit \cup HexLetter

Check_ident(current) ==
  current /= None /\ (Check_letter(current) \/ Check_digit(current) \/ current = "-")

Check_escape(current, nxt) == current = BSLASH /\ nxt /= NL

\* ord(current or '') raises TypeError unless current is one codepoint
\* a check that lets everything pass that is no codepoint
Check_non_printable_tolerant(current) == FALSE

Check_non_printable_raises(current) == current \in {None, ERROR}

Check_non_printable(current) == current \in NonPrintable

Check_starts_with_ident(first, second, third) ==
  IF second = None \/ third = None THEN FALSE
  ELSE IF Check_ident_start(first) THEN TRUE
  ELSE IF (first = "-" /\ (Check_ident_start(second) \/ second = "-"))
          \/ Check_escape(second, third) THEN TRUE
  ELSE IF first = BSLASH /\ Check_escape(first, second) THEN TRUE
  ELSE FALSE

Check_starts_with_number(first, second, third) ==
  IF first \in {"+", "-"}
  THEN IF Check_digit(second) THEN TRUE
       ELSE IF second = "." /\ Check_digit(third) THEN TRUE
       ELSE FALSE
  ELSE IF first = "." THEN Check_digit(second)
  ELSE IF Check_digit(first) THEN TRUE
  ELSE FALSE

(***************************************************************************)
(* Python's int(): decimal text with an optional sign                      *)
(***************************************************************************)
DigitVal(c) ==
  CASE c = "0" -> 0 [] c = "1" -> 1 [] c = "2" -> 2 [] c = "3" -> 3
    [] c = "4" -> 4 [] c = "5" -> 5 [] c = "6" -> 6 [] c = "7" -> 7
    [] c = "8" -> 8 [] c = "9" -> 9
    [] c \in {"a","A"} -> 10 [] c \in {"b","B"} -> 11 [] c \in {"c","C"} -> 12
    [] c \in {"d","D"} -> 13 [] c \in {"e","E"} -> 14 [] c \in {"f","F"} -> 15

RECURSIVE NatOf(_, _)
NatOf(s, base) ==
  IF s = <<>> THEN 0
  ELSE NatOf(SubSeq(s, 1, Len(s) - 1), base) * base + DigitVal(s[Len(s)])

AllDigits(s) == s /= <<>> /\ \A i \in 1..Len(s) : s[i] \in Digit

\* int(s) raises ValueError unless s is [+-]?[0-9]+
int_ok(s) ==
  IF s /= <<>> /\ s[1] \in {"+", "-"} THEN AllDigits(Tail(s)) ELSE AllDigits(s)

int(s) ==
  IF s[1] = "-" THEN 0 - NatOf(Tail(s), 10)
  ELSE IF s[1] = "+" THEN NatOf(Tail(s), 10)
  ELSE NatOf(s, 10)

MAX_CODEPOINT == 1114111

(***************************************************************************)
(* Tokens (css/tokens.py)                                                  *)
(***************************************************************************)
Token(type, raw) == [type |-> type, raw |-> raw]

Hash(raw, htype) == [type |-> "Hash", raw |-> raw, htype |-> htype]

\* a Delim constructor without the length check
Delim_unchecked(cls, raw) == [ret |-> Token(cls, raw), exc |-> "none"]

\* Delim.__init__, inherited by Colon, Semicolon and Comma: cls(raw)
Delim(cls, raw) ==
  IF Len(raw) > 1 THEN [ret |-> None, exc |-> "ValueError"]
  ELSE [ret |-> Token(cls, raw), exc |-> "none"]

\* value is mant * 10^exp, as _consume_number_ computes it
Number(type, number) ==
  [type |-> type, raw |-> number.raw, value |-> number.value, ntype |-> number.ntype]

Dimension(number, unit) ==
  [type |-> "Dimension", raw |-> number.raw \o unit, value |-> number.value,
   ntype |-> number.ntype, unit |-> unit]

EOF == Token("EOF", <<>>)

(***************************************************************************)
(* Lexer (css/lexer.py).  L is the lexer object: [source, errors].  Every  *)
(* method is an operator from L (and its arguments) to the outcome         *)
(* [L, ret, exc]: the lexer afterwards, the value returned, and the name   *)
(* of the exception raised ("none" when it returns).                       *)
(***************************************************************************)
CR == "\r"
FF == "\f"
NUL == "U+0000"

\* RETURNS.sub("\n", source).replace('\u0000', REPLACEMENT_CHAR)
RECURSIVE normalize_source(_)
normalize_source(text) ==
  IF text = <<>> THEN <<>>
  ELSE IF Len(text) >= 2 /\ text[1] = CR /\ text[2] = NL
  THEN <<NL>> \o normalize_source(Tail(Tail(text)))
  ELSE IF text[1] \in {FF, CR} THEN <<NL>> \o normalize_source(Tail(text))
  ELSE IF text[1] = NUL THEN <<REPLACEMENT_CHAR>> \o normalize_source(Tail(text))
  ELSE <<text[1]>> \o normalize_source(Tail(text))

Lexer(text) == [source |-> normalize_source(text), errors |-> <<>>]

Ret(L, v) == [L |-> L, ret |-> v, exc |-> "none"]

Raise(L, e) == [L |-> L, ret |-> None, exc |-> e]

peek(L, amount) == IF Len(L.source) >= amount THEN L.source[amount] ELSE None

next(L) == IF Len(L.source) >= 1 THEN Head(L.source) ELSE ERROR

pop(L) == IF Len(L.source) >= 1 THEN [L EXCEPT !.source = Tail(@)] ELSE L

reinsert(L, c) == [L EXCEPT !.source = <<c>> \o @]

error(L, e) == [L EXCEPT !.errors = Append(@, e)]

RECURSIVE comment_loop(_, _, _)
comment_loop(L, raw, nxt) ==
  IF peek(L, 1) /= "/" \/ nxt /= "*"
  THEN IF nxt = None \/ peek(L, 1) = None
       THEN Raise(L, "ParseError")
       ELSE comment_loop(pop(L), raw \o <<nxt>>, next(L))
  ELSE Ret(pop(L), Token("Comment", raw \o <<"*", "/">>))

consume_comment(L, current) ==
  comment_loop(pop(pop(L)), <<current, next(L)>>, next(pop(L)))

RECURSIVE whitespace_loop(_, _)
whitespace_loop(L, raw) ==
  IF peek(L, 1) \in {NL, TAB, " "}
  THEN whitespace_loop(pop(L), raw \o <<next(L)>>)
  ELSE Ret(L, Token("Whitespace", raw))

consume_whitespace(L, current) == whitespace_loop(L, <<current>>)

RECURSIVE string_loop(_, _, _, _)
string_loop(L, ending, raw, escaped) ==
  IF peek(L, 1) = None
  THEN Ret(error(L, "ParseError: String was not closed"), Token("String", raw))
  ELSE LET nxt == next(L)
           L1 == pop(L)
       IN IF nxt = BSLASH THEN string_loop(L1, ending, raw, TRUE)
          ELSE IF nxt = NL /\ escaped THEN string_loop(L1, ending, raw, escaped)
          ELSE IF nxt = NL
          THEN Ret(error(L1, "SyntaxError: String literal not closed"), Token("BadString", raw))
          ELSE IF ~escaped /\ nxt = ending THEN Ret(L1, Token("String", raw))
          ELSE string_loop(L1, ending, raw \o <<nxt>>, FALSE)

consume_string(L, current) ==
  IF peek(L, 1) = None THEN Ret(L, Token("BadString", <<>>))
  ELSE string_loop(L, current, <<>>, FALSE)

RECURSIVE escape_loop(_, _)
escape_loop(L, output) ==
  IF Check_hex(peek(L, 1)) /\ Len(output) < 7
  THEN escape_loop(pop(L), output \o <<next(L)>>)
  ELSE [L |-> L, output |-> output]

\* returns text (a sequence of codepoints)
consume_escape(L, current) ==
  LET hex_escape(e) ==
        IF (AllDigits(e.output) /\ int(e.output) = 0)
           \/ NatOf(e.output, 16) > MAX_CODEPOINT
        THEN Ret(e.L, <<REPLACEMENT_CHAR>>)
        ELSE Ret(e.L, <<current>> \o e.output)
  IN IF peek(L, 1) = None THEN Ret(L, <<REPLACEMENT_CHAR>>)
     ELSE IF Check_hex(next(L)) THEN hex_escape(escape_loop(pop(L), <<next(L)>>))
     ELSE Ret(pop(L), <<next(L)>>)

RECURSIVE consume_ident_loop(_, _)
consume_ident_loop(L, result) ==
  LET escaped(e) == consume_ident_loop(e.L, result \o e.ret)
  IN IF peek(L, 1) /= None
     THEN IF Check_ident(next(L)) THEN consume_ident_loop(pop(L), result \o <<next(L)>>)
          ELSE IF Check_escape(next(L), peek(L, 2))
          THEN escaped(consume_escape(pop(L), next(L)))
          ELSE Ret(L, result)
     ELSE Ret(L, result)

consume_ident(L) == consume_ident_loop(L, <<>>)

consume_hash(L, current) ==
  LET hasht(htype, r) == Ret(r.L, Hash(r.ret, htype))
  IN IF Len(L.source) >= 1
        /\ (Check_ident(peek(L, 1)) \/ Check_escape(peek(L, 1), peek(L, 2)))
     THEN hasht(IF Check_starts_with_ident(peek(L, 1), peek(L, 2), peek(L, 3))
                THEN "id" ELSE "unrestricted",
                consume_ident(L))
     ELSE Ret(L, Token("Delim", <<current>>))

RECURSIVE digits_loop(_, _)
digits_loop(L, raw) ==
  IF Check_digit(peek(L, 1)) THEN digits_loop(pop(L), raw \o <<next(L)>>)
  ELSE [L |-> L, raw |-> raw]

\* int(raw) * (10 ** int(science)), kept as [mant, exp]; int() raises ValueError
number_of(L, raw, science, ntype, text) ==
  IF int_ok(raw) /\ int_ok(science)
  THEN Ret(L, [value |-> [mant |-> int(raw), exp |-> int(science)],
               ntype |-> ntype, raw |-> text])
  ELSE Raise(L, "ValueError")

\* returns [value, ntype, raw]; value is [mant, exp] for mant * 10 ** exp
consume_number(L) ==
  LET sign == IF peek(L, 1) \in {"-", "+"}
              THEN [L |-> pop(L), raw |-> <<next(L)>>] ELSE [L |-> L, raw |-> <<>>]
      fraction(f) == number_of(f.L, f.raw, <<"0">>, "number", f.raw)
      exponent(raw, t, sc) == number_of(sc.L, raw, sc.raw, "number", raw \o <<t>> \o sc.raw)
      science(raw, t, L1) ==
        exponent(raw, t,
          IF peek(L1, 2) \in {"-", "+"} /\ Check_digit(peek(L1, 3))
          THEN digits_loop(pop(pop(L1)), <<peek(L1, 1), peek(L1, 2)>>)
          ELSE IF Check_digit(peek(L1, 2))
          THEN digits_loop(pop(L1), <<peek(L1, 1)>>)
          ELSE digits_loop(L1, <<>>))
      digits(d) ==
        IF peek(d.L, 1) = "." /\ Check_digit(peek(d.L, 2))
        THEN fraction(digits_loop(pop(pop(d.L)), d.raw \o <<peek(d.L, 1), peek(d.L, 2)>>))
        ELSE IF peek(d.L, 1) \in {"E", "e"} THEN science(d.raw, next(d.L), pop(d.L))
        ELSE number_of(d.L, d.raw, <<"0">>, "integer", d.raw)
  IN digits(digits_loop(sign.L, sign.raw))

consume_numeric(L) ==
  LET dimension(n, u) == Ret(u.L, Dimension(n.ret, u.ret))
      numeric(n) ==
        IF n.exc /= "none" THEN n
        ELSE IF Check_starts_with_ident(peek(n.L, 1), peek(n.L, 2), peek(n.L, 3))
        THEN dimension(n, consume_ident(n.L))
        ELSE IF peek(n.L, 1) = "%" THEN Ret(pop(n.L), Number("Percentage", n.ret))
        ELSE Ret(n.L, Number("Number", n.ret))
  IN numeric(consume_number(L))

RECURSIVE remnant_loop(_, _)
remnant_loop(L, nxt) ==
  LET escaped(e) == remnant_loop(pop(e.L), next(e.L))
  IN IF nxt \in {ERROR, ")"} THEN Ret(L, None)
     ELSE IF Check_escape(nxt, peek(L, 1)) THEN escaped(consume_escape(L, nxt))
     ELSE remnant_loop(pop(L), next(L))

consume_remnant_bad_url(L) == remnant_loop(pop(L), next(L))

RECURSIVE skip_whitespace(_)
skip_whitespace(L) == IF Check_whitespace(peek(L, 1)) THEN skip_whitespace(pop(L)) ELSE L

RECURSIVE url_loop(_, _, _)
url_loop(L, raw, nxt) ==
  LET bad_url(r) == Ret(r.L, Token("BadUrl", <<>>))
      continue(L1, raw1) ==
        IF peek(L1, 1) = None
        THEN Ret(error(L1, "ParseError: Url not closed"), Token("Url", raw1))
        ELSE url_loop(pop(L1), raw1, next(L1))
      escaped(e) == continue(e.L, raw \o e.ret)
      whitespace(L1) ==
        IF peek(L1, 1) = None \/ peek(L1, 1) = ")"
        THEN Ret(error(pop(L1), "ParseError: Url not closed"), Token("Url", raw))
        ELSE bad_url(consume_remnant_bad_url(L1))
  IN IF nxt = ")" THEN Ret(L, Token("Url", raw))
     ELSE IF Check_whitespace(nxt) THEN whitespace(skip_whitespace(L))
     ELSE IF nxt \in {SQUOTE, DQUOTE, "("} THEN bad_url(consume_remnant_bad_url(L))
     ELSE IF Check_non_printable_raises(nxt) THEN Raise(L, "TypeError")
     ELSE IF Check_non_printable(nxt) THEN bad_url(consume_remnant_bad_url(L))
     ELSE IF nxt = BSLASH
     THEN IF Check_escape(nxt, peek(L, 1)) THEN escaped(consume_escape(L, nxt))
          ELSE bad_url(consume_remnant_bad_url(error(L, "ParseError: Invalid backslash in url")))
     ELSE continue(L, raw \o <<nxt>>)

consume_url(L) ==
  LET start(L1) == url_loop(pop(L1), <<>>, next(L1))
      leading(L1) ==
        start(IF peek(L1, 1) = None THEN error(L1, "ParseError: Url not closed") ELSE L1)
  IN leading(skip_whitespace(L))

RECURSIVE url_whitespace_loop(_)
url_whitespace_loop(L) ==
  IF Check_whitespace(peek(L, 1)) /\ Check_whitespace(peek(L, 2))
  THEN url_whitespace_loop(pop(L)) ELSE L

\* stdin is what input() finds on standard input: "line" (it returns) or
\* "eof" (it raises EOFError)
consume_ident_like(L, stdin) ==
  LET url(ident, L2) ==
        IF (peek(L2, 1) = " " /\ peek(L2, 2) \in {SQUOTE, DQUOTE})
           \/ peek(L2, 1) \in {SQUOTE, DQUOTE}
        THEN Ret(L2, Token("Function", ident))
        ELSE consume_url(L2)
      ident_like(i) ==
        IF i.ret = <<"u", "r", "l">> /\ peek(i.L, 1) = "("
        THEN url(i.ret, url_whitespace_loop(pop(i.L)))
        ELSE IF peek(i.L, 1) = "(" THEN Ret(pop(i.L), Token("Function", i.ret))
        ELSE IF i.ret = <<>> /\ stdin = "eof" THEN Raise(i.L, "EOFError")
        ELSE Ret(i.L, Token("Ident", i.ret))
  IN ident_like(consume_ident(L))

\* the token kinds that consume() makes of one codepoint
Singleton(nxt) ==
  CASE nxt = "(" -> "LParantheses" [] nxt = ")" -> "RParantheses"
    [] nxt = "[" -> "LSquareBracket" [] nxt = "]" -> "RSquareBracket"
    [] nxt = "{" -> "LCurlyBracket" [] nxt = "}" -> "RCurlyBracket"
    [] nxt = "," -> "Comma" [] nxt = ":" -> "Colon" [] nxt = ";" -> "Semicolon"
    [] OTHER -> "Delim"

consume(L0, stdin) ==
  LET nxt == next(L0)
      L == pop(L0)
      at_keyword(i) == Ret(i.L, Token("AtKeyword", i.ret))
      \* the branch of the if/elif chain that a codepoint takes
      branch ==
        IF nxt = ERROR THEN "eof"
        ELSE IF nxt = "/" /\ peek(L, 1) = "*" THEN "comment"
        ELSE IF nxt \in {DQUOTE, SQUOTE} THEN "string"
        ELSE IF nxt = "#" THEN "hash"
        ELSE IF nxt = "+"
        THEN IF Check_starts_with_number(nxt, peek(L, 1), peek(L, 2)) THEN "numeric"
             ELSE "delim"
        ELSE IF nxt = "-"
        THEN IF Check_starts_with_number(nxt, peek(L, 1), peek(L, 2)) THEN "numeric"
             ELSE IF peek(L, 2) = "-" /\ peek(L, 3) = ">" THEN "cdc"
             ELSE IF Check_starts_with_ident(nxt, peek(L, 2), peek(L, 3)) THEN "ident_like"
             ELSE "delim"
        ELSE IF nxt = "."
        THEN IF Check_starts_with_number(nxt, peek(L, 2), peek(L, 3)) THEN "numeric"
             ELSE "delim"
        ELSE IF nxt = "<"
        THEN IF peek(L, 1) = "!" /\ peek(L, 2) = "-" /\ peek(L, 3) = "-" THEN "cdo"
             ELSE "delim"
        ELSE IF nxt = "@"
        THEN IF Check_starts_with_ident(peek(L, 1), peek(L, 2), peek(L, 3)) THEN "at_keyword"
             ELSE "delim"
        ELSE IF nxt = BSLASH
        THEN IF Check_escape(nxt, peek(L, 1)) THEN "ident_like" ELSE "invalid_backslash"
        ELSE IF Check_digit(nxt) THEN "numeric"
        ELSE IF Check_ident_start(nxt) THEN "ident_like"
        ELSE IF nxt \in {NL, TAB, " "} THEN "whitespace"
        ELSE "delim"
  IN CASE branch = "eof" -> Ret(L, EOF)
       [] branch = "comment" -> consume_comment(L, nxt)
       [] branch = "string" -> consume_string(L, nxt)
       [] branch = "hash" -> consume_hash(L, nxt)
       [] branch = "numeric" -> consume_numeric(reinsert(L, nxt))
       [] branch = "ident_like" -> consume_ident_like(reinsert(L, nxt), stdin)
       [] branch = "cdc" -> Ret(pop(pop(L)), Token("CDC", <<"-", "-", ">">>))
       [] branch = "cdo" -> Ret(pop(pop(pop(L))), Token("CDO", <<"<", "!", "-", "-">>))
       [] branch = "at_keyword" -> at_keyword(consume_ident(L))
       [] branch = "invalid_backslash" ->
            Ret(error(L, "ParseError: Invalid backslash"), Token("Delim", <<nxt>>))
       [] branch = "whitespace" -> consume_whitespace(L, nxt)
       [] branch = "delim" -> Ret(L, Token(Singleton(nxt), <<nxt>>))

\* Lexer.__next__ / Lexer.process: consume() until it returns EOF.  A call
\* that returns a token and leaves the lexer as it was will repeat forever:
\* the outcome is then "<diverges>".
RECURSIVE process_loop(_, _, _)
process_loop(L, stdin, tokens) ==
  LET consumed(r) ==
        IF r.exc /= "none" THEN Raise(r.L, r.exc)
        ELSE IF r.ret.type = "EOF" THEN Ret(r.L, tokens)
        ELSE IF r.L = L THEN Raise(r.L, "<diverges>")
        ELSE process_loop(r.L, stdin, Append(tokens, r.ret))
  IN consumed(consume(L, stdin))

\* a process() that hands out the EOF it stopped at
process_with_eof(L, stdin) ==
  LET ended(r) == IF r.exc = "none" THEN Ret(r.L, Append(r.ret, EOF)) ELSE r
  IN ended(process_loop(L, stdin, <<>>))

\* a process() that scans a copy and leaves the lexer's queue as it was
process_rewinding(L, stdin) ==
  LET ended(r) == [r EXCEPT !.L = L]
  IN ended(process_loop(L, stdin, <<>>))

process(L, stdin) == process_loop(L, stdin, <<>>)

(***************************************************************************)
(* Parser (css/parser.py).  P is the parser object: [tokens, errors].      *)
(* Components and rules are records tagged by type; an absent block or     *)
(* rule (Python's None) is NoneObj.                                        *)
(***************************************************************************)
NoneObj == [type |-> "None"]

Block(token, value) == [type |-> "Block", token |-> token, value |-> value]

FunctionBlock(name, value) == [type |-> "FunctionBlock", name |-> name, value |-> value]

AtRule(name, prelude, block) ==
  [type |-> "AtRule", name |-> name, prelude |-> prelude, block |-> block]

QualifiedRule(prelude, block) ==
  [type |-> "QualifiedRule", prelude |-> prelude, block |-> block]

\* an alt that is the closing curly bracket for every bracket
alt_curly(type) == "RCurlyBracket"

\* the alt property of the bracket tokens
alt(type) ==
  CASE type = "LCurlyBracket" -> "RCurlyBracket"
    [] type = "RCurlyBracket" -> "LCurlyBracket"
    [] type = "LSquareBracket" -> "RSquareBracket"
    [] type = "RSquareBracket" -> "LSquareBracket"
    [] type = "LParantheses" -> "RParantheses"
    [] type = "RParantheses" -> "LParantheses"

\* Parse.normalize on a list: the list itself
Parser_of_list(tokens) == [tokens |-> tokens, errors |-> <<>>]

\* Parse.normalize on a str: Lexer(_input_).process(), which may raise
Parser_of_text(text, stdin) ==
  LET normalize(r) ==
        IF r.exc /= "none" THEN Raise(NoneObj, r.exc)
        ELSE Ret(Parser_of_list(r.ret), None)
  IN normalize(process(Lexer(text), stdin))

Parser_peek(P, amount) == IF Len(P.tokens) >= amount THEN P.tokens[amount] ELSE EOF

Parser_next(P) == IF Len(P.tokens) >= 1 THEN Head(P.tokens) ELSE EOF

Parser_pop(P) == IF Len(P.tokens) >= 1 THEN [P EXCEPT !.tokens = Tail(@)] ELSE P

Parser_error(P, e) == [P EXCEPT !.errors = Append(@, e)]

RECURSIVE consume_component_value(_)
RECURSIVE consume_block_loop(_, _, _)
RECURSIVE consume_function_loop(_, _, _)

\* in the loops below, next() followed by reconsume(next) leaves the queue
\* as it was: the component value is consumed from P itself
consume_block_loop(P, opening, value) ==
  LET nxt == Parser_next(P)
      component(c) == consume_block_loop(c.L, opening, Append(value, c.ret))
  IN IF nxt.type = alt(opening.type) THEN Ret(Parser_pop(P), Block(opening, value))
     ELSE IF nxt.type = "EOF"
     THEN Ret(Parser_error(P, "ParseError: Block was not closed"), Block(opening, value))
     ELSE component(consume_component_value(P))

\* a consume_block that stores the token it stopped at when the block was
\* not closed
consume_block_storing_end(P, opening) ==
  LET ended(r) ==
        IF Len(r.L.errors) > Len(P.errors)
        THEN Ret(r.L, Block(opening, Append(r.ret.value, Parser_next(r.L))))
        ELSE r
  IN ended(consume_block_loop(P, opening, <<>>))

consume_block(P, opening) == consume_block_loop(P, opening, <<>>)

consume_function_loop(P, name, value) ==
  LET nxt == Parser_next(P)
      component(c) == consume_function_loop(c.L, name, Append(value, c.ret))
  IN IF nxt.type = "RParantheses" THEN Ret(Parser_pop(P), FunctionBlock(name, value))
     ELSE IF nxt.type = "EOF"
     THEN Ret(Parser_error(P, "ParseError: Function was not closed"),
              FunctionBlock(name, value))
     ELSE component(consume_component_value(P))

consume_function(P, function) == consume_function_loop(P, function.raw, <<>>)

consume_component_value(P) ==
  LET nxt == Parser_next(P)
  IN IF nxt.type \in {"LCurlyBracket", "LSquareBracket", "LParantheses"}
     THEN consume_block(Parser_pop(P), nxt)
     ELSE IF nxt.type = "Function" THEN consume_function(Parser_pop(P), nxt)
     ELSE Ret(Parser_pop(P), nxt)

IsCurlyBlock(c) == c.type = "Block" /\ c.token.type = "LCurlyBracket"

RECURSIVE consume_at_rule_loop(_, _, _)
consume_at_rule_loop(P, name, prelude) ==
  LET nxt == Parser_next(P)
      block(b) == Ret(b.L, AtRule(name, prelude, b.ret))
      component(c) == consume_at_rule_loop(c.L, name, Append(prelude, c.ret))
  IN IF nxt.type = "Semicolon" THEN Ret(Parser_pop(P), AtRule(name, prelude, NoneObj))
     ELSE IF nxt.type = "EOF"
     THEN Ret(Parser_error(P, "ParseError: At Rule missing semi-colon"),
              AtRule(name, prelude, NoneObj))
     ELSE IF nxt.type = "LCurlyBracket" THEN block(consume_block(Parser_pop(P), nxt))
     ELSE IF IsCurlyBlock(nxt) THEN Ret(Parser_pop(P), AtRule(name, prelude, nxt))
     ELSE component(consume_component_value(P))

\* a consume_at_rule that returns the at-rule without the block it consumed
consume_at_rule_blockless(P) ==
  LET dropped(r) == Ret(r.L, AtRule(r.ret.name, r.ret.prelude, NoneObj))
  IN dropped(consume_at_rule_loop(Parser_pop(P), Parser_next(P).raw, <<>>))

consume_at_rule(P) == consume_at_rule_loop(Parser_pop(P), Parser_next(P).raw, <<>>)

RECURSIVE consume_qualified_rule_loop(_, _)
consume_qualified_rule_loop(P, prelude) ==
  LET nxt == Parser_next(P)
      block(b) == Ret(b.L, QualifiedRule(prelude, b.ret))
      component(c) == consume_qualified_rule_loop(c.L, Append(prelude, c.ret))
  IN IF nxt.type = "EOF"
     THEN Ret(Parser_error(P, "ParseError: Qualified rule is not closed"), NoneObj)
     ELSE IF nxt.type = "LCurlyBracket" THEN block(consume_block(Parser_pop(P), nxt))
     ELSE IF IsCurlyBlock(nxt) THEN Ret(Parser_pop(P), QualifiedRule(prelude, nxt))
     ELSE component(consume_component_value(P))

\* a consume_qualified_rule that also stops at a ';', as an at-rule does
consume_qualified_rule_to_semicolon(P) ==
  LET converted(r) == Ret(r.L, QualifiedRule(r.ret.prelude, r.ret.block))
  IN converted(consume_at_rule_loop(P, <<>>, <<>>))

consume_qualified_rule(P) == consume_qualified_rule_loop(P, <<>>)

RECURSIVE consume_rule_list_loop(_, _, _)
consume_rule_list_loop(P, top_level, rules) ==
  LET nxt == Parser_next(P)
      rule(r) ==
        consume_rule_list_loop(r.L, top_level,
          IF r.ret.type /= "None" THEN Append(rules, r.ret) ELSE rules)
      branch ==
        IF nxt.type = "Whitespace" THEN "skip"
        ELSE IF nxt.type = "EOF" THEN "return"
        ELSE IF nxt.type \in {"CDO", "CDC"} THEN (IF top_level THEN "skip" ELSE "qualified")
        ELSE IF nxt.type = "AtKeyword" THEN "at"
        ELSE "qualified"
  IN CASE branch = "skip" -> consume_rule_list_loop(Parser_pop(P), top_level, rules)
       [] branch = "return" -> Ret(P, rules)
       [] branch = "at" -> rule(consume_at_rule(P))
       [] branch = "qualified" -> rule(consume_qualified_rule(P))

\* a consume_rule_list that takes every list for a nested one
consume_rule_list_nested(P, top_level) == consume_rule_list_loop(P, FALSE, <<>>)

consume_rule_list(P, top_level) == consume_rule_list_loop(P, top_level, <<>>)

RECURSIVE Parser_skip_whitespace(_)
Parser_skip_whitespace(P) ==
  IF Parser_peek(P, 1).type = "Whitespace" THEN Parser_skip_whitespace(Parser_pop(P)) ELSE P

\* a parse_rule that does not look at what follows the rule
parse_rule_lenient(P0) ==
  LET consumed(r) == IF r.ret.type = "None" THEN Raise(r.L, "SyntaxError") ELSE r
      leading(P) ==
        IF Parser_peek(P, 1).type = "EOF" THEN Raise(P, "SyntaxError")
        ELSE IF Parser_peek(P, 1).type = "AtKeyword" THEN consumed(consume_at_rule(P))
        ELSE consumed(consume_qualified_rule(P))
  IN leading(Parser_skip_whitespace(P0))

\* Parse.parse_rule once the Parser is built: P is the new Parser
parse_rule_on(P0) ==
  LET trailing(rule, P) ==
        IF Parser_peek(P, 1).type = "EOF" THEN Ret(P, rule) ELSE Raise(P, "SyntaxError")
      consumed(r) ==
        IF r.ret.type = "None" THEN Raise(r.L, "SyntaxError")
        ELSE trailing(r.ret, Parser_skip_whitespace(r.L))
      leading(P) ==
        IF Parser_peek(P, 1).type = "EOF" THEN Raise(P, "SyntaxError")
        ELSE IF Parser_peek(P, 1).type = "AtKeyword" THEN consumed(consume_at_rule(P))
        ELSE consumed(consume_qualified_rule(P))
  IN leading(Parser_skip_whitespace(P0))

\* Parse.parse_rule on a str
Parse_parse_rule(text, stdin) ==
  LET normalized(n) == IF n.exc /= "none" THEN n ELSE parse_rule_on(n.L)
  IN normalized(Parser_of_text(text, stdin))

Decleration(name, value, important) ==
  [type |-> "Decleration", name |-> name, value |-> value, important |-> important]

\* isinstance(token, Delim): Delim and its subclasses
IsDelim(c) == c.type \in {"Delim", "Colon", "Semicolon", "Comma"}

\* while isinstance(value[-1], Whitespace): value.pop(); value[-1] of an
\* empty list raises IndexError
RECURSIVE pop_whitespace(_)
pop_whitespace(value) ==
  IF value = <<>> THEN [value |-> value, exc |-> "IndexError"]
  ELSE IF value[Len(value)].type = "Whitespace"
  THEN pop_whitespace(SubSeq(value, 1, Len(value) - 1))
  ELSE [value |-> value, exc |-> "none"]

RECURSIVE consume_decleration_values(_, _)
consume_decleration_values(P, value) ==
  LET component(c) == consume_decleration_values(c.L, Append(value, c.ret))
  IN IF Parser_peek(P, 1).type /= "EOF" THEN component(consume_component_value(P))
     ELSE Ret(P, value)

\* a test for a trailing !important that never finds one
never_important(value) == FALSE

EndsWithImportant(value) ==
  /\ Len(value) >= 2
  /\ IsDelim(value[Len(value) - 1])
  /\ value[Len(value) - 1].raw = <<"!">>
  /\ value[Len(value)].type = "Ident"
  /\ value[Len(value)].raw = <<"i", "m", "p", "o", "r", "t", "a", "n", "t">>

\* Parser.consume_decleration
consume_decleration(P0) ==
  LET name == Parser_next(P0).raw
      second_trim(P, t, important) ==
        IF t.exc /= "none" THEN Raise(P, t.exc)
        ELSE Ret(P, Decleration(name, t.value, important))
      first_trim(P, t) ==
        IF t.exc /= "none" THEN Raise(P, t.exc)
        ELSE IF EndsWithImportant(t.value)
        THEN second_trim(P, pop_whitespace(SubSeq(t.value, 1, Len(t.value) - 2)), TRUE)
        ELSE second_trim(P, pop_whitespace(t.value), FALSE)
      values(v) == first_trim(v.L, pop_whitespace(v.ret))
      colon(P) ==
        IF Parser_peek(P, 1).type /= "Colon"
        THEN Ret(Parser_error(P, "ParseError: Expected a colon"), NoneObj)
        ELSE values(consume_decleration_values(Parser_skip_whitespace(Parser_pop(P)), <<>>))
  IN colon(Parser_skip_whitespace(Parser_pop(P0)))

\* Parse.parse_decleration once the Parser is built
parse_decleration_on(P0) ==
  LET consumed(r) ==
        IF r.exc /= "none" THEN r
        ELSE IF r.ret.type /= "None" THEN r
        ELSE Raise(r.L, "SyntaxError")
      leading(P) ==
        IF Parser_peek(P, 1).type /= "Ident" THEN Raise(P, "SyntaxError")
        ELSE consumed(consume_decleration(P))
  IN leading(Parser_skip_whitespace(P0))

\* a parse_component_value that does not look at what follows the value
parse_component_value_lenient(P0) ==
  LET leading(P) ==
        IF Parser_peek(P, 1).type = "EOF" THEN Raise(P, "SyntaxError")
        ELSE consume_component_value(P)
  IN leading(Parser_skip_whitespace(P0))

\* Parse.parse_component_value once the Parser is built
parse_component_value_on(P0) ==
  LET trailing(cv, P) ==
        IF Parser_peek(P, 1).type = "EOF" THEN Ret(P, cv) ELSE Raise(P, "SyntaxError")
      consumed(r) == trailing(r.ret, Parser_skip_whitespace(r.L))
      leading(P) ==
        IF Parser_peek(P, 1).type = "EOF" THEN Raise(P, "SyntaxError")
        ELSE consumed(consume_component_value(P))
  IN leading(Parser_skip_whitespace(P0))

RECURSIVE comma_seperated_loop(_, _, _)
comma_seperated_loop(P, result, current) ==
  LET flushed == IF Len(current) > 0 THEN Append(result, current) ELSE result
      consumed(c) ==
        IF c.ret.type = "EOF" THEN Ret(c.L, flushed)
        ELSE IF IsDelim(c.ret) /\ c.ret.raw = <<",">>
        THEN comma_seperated_loop(c.L, flushed, <<>>)
        ELSE comma_seperated_loop(c.L, result, Append(current, c.ret))
  IN consumed(consume_component_value(P))

\* Parse.parse_comma_seperated once the Parser is built
parse_comma_seperated_on(P) ==
  IF \A i \in 1..Len(P.tokens) : P.tokens[i].type = "Whitespace" THEN Ret(P, <<>>)
  ELSE comma_seperated_loop(P, <<>>, <<>>)

\* Parse.parse_component_values once the Parser is built
RECURSIVE parse_component_values_on(_, _)
parse_component_values_on(P, result) ==
  LET consumed(val) ==
        IF val.ret.type = "EOF" THEN Ret(val.L, result)
        ELSE parse_component_values_on(val.L, Append(result, val.ret))
  IN consumed(consume_component_value(P))

\* the component values up to the next ';' or the end of the queue
RECURSIVE consume_until_semicolon(_, _)
consume_until_semicolon(P, temp) ==
  LET component(c) == consume_until_semicolon(c.L, Append(temp, c.ret))
  IN IF Parser_peek(P, 1).type \in {"EOF", "Semicolon"} THEN Ret(P, temp)
     ELSE component(consume_component_value(P))

\* the queue entries up to the next ';' or the end of the queue
RECURSIVE next_until_semicolon(_, _)
next_until_semicolon(P, temp) ==
  IF Parser_peek(P, 1).type \in {"EOF", "Semicolon"} THEN Ret(P, temp)
  ELSE next_until_semicolon(Parser_pop(P), Append(temp, Parser_next(P)))

\* Parse.parse_decleration(temp) as consume_style_block and
\* consume_decl_list call it: a Parser of its own runs on temp, and what it
\* raises passes through the Parser that called
decleration_of(t) ==
  LET parsed(d) == IF d.exc /= "none" THEN Raise(t.L, d.exc) ELSE Ret(t.L, d.ret)
  IN parsed(parse_decleration_on(Parser_of_list(t.ret)))

RECURSIVE consume_style_block_loop(_, _, _)
consume_style_block_loop(P, decls, rules) ==
  LET nxt == Parser_next(P)
      at_rule(r) == consume_style_block_loop(r.L, decls, Append(rules, r.ret))
      qrule(r) ==
        consume_style_block_loop(r.L, decls,
          IF r.ret.type /= "None" THEN Append(rules, r.ret) ELSE rules)
      decl(d) ==
        IF d.exc /= "none" THEN d
        ELSE consume_style_block_loop(d.L,
               IF d.ret.type /= "None" THEN Append(decls, d.ret) ELSE decls, rules)
      skipped(s) == consume_style_block_loop(s.L, decls, rules)
      branch ==
        IF nxt.type \in {"Whitespace", "Semicolon"} THEN "skip"
        ELSE IF nxt.type = "EOF" THEN "return"
        ELSE IF nxt.type = "AtKeyword" THEN "at"
        ELSE IF nxt.type = "Ident" THEN "decl"
        ELSE IF IsDelim(nxt) /\ nxt.raw = <<"&">> THEN "qualified"
        ELSE "invalid"
  IN CASE branch = "skip" -> consume_style_block_loop(Parser_pop(P), decls, rules)
       [] branch = "return" -> Ret(P, decls \o rules)
       [] branch = "at" -> at_rule(consume_at_rule(P))
       [] branch = "decl" ->
            decl(decleration_of(consume_until_semicolon(Parser_pop(P), <<nxt>>)))
       [] branch = "qualified" -> qrule(consume_qualified_rule(P))
       [] branch = "invalid" ->
            skipped(consume_until_semicolon(
                      Parser_error(P, "ParseError: Invalid style block syntax"), <<>>))

\* a consume_style_block that returns rules + decls
consume_style_block_rules_first(P) ==
  LET is_decl(x) == x.type = "Decleration"
      is_rule(x) == x.type /= "Decleration"
      swapped(r) ==
        IF r.exc /= "none" THEN r
        ELSE Ret(r.L, SelectSeq(r.ret, is_rule) \o SelectSeq(r.ret, is_decl))
  IN swapped(consume_style_block_loop(P, <<>>, <<>>))

consume_style_block(P) == consume_style_block_loop(P, <<>>, <<>>)

RECURSIVE consume_decl_list_loop(_, _)
consume_decl_list_loop(P, decls) ==
  LET nxt == Parser_next(P)
      at_rule(r) == consume_decl_list_loop(r.L, Append(decls, r.ret))
      decl(d) ==
        IF d.exc /= "none" THEN d
        ELSE consume_decl_list_loop(d.L,
               IF d.ret.type /= "None" THEN Append(decls, d.ret) ELSE decls)
      skipped(s) == consume_decl_list_loop(s.L, decls)
      branch ==
        IF nxt.type \in {"Whitespace", "Semicolon"} THEN "skip"
        ELSE IF nxt.type = "EOF" THEN "return"
        ELSE IF nxt.type = "AtKeyword" THEN "at"
        ELSE IF nxt.type = "Ident" THEN "decl"
        ELSE "invalid"
  IN CASE branch = "skip" -> consume_decl_list_loop(Parser_pop(P), decls)
       [] branch = "return" -> Ret(P, decls)
       [] branch = "at" -> at_rule(consume_at_rule(P))
       [] branch = "decl" ->
            decl(decleration_of(next_until_semicolon(Parser_pop(P), <<nxt>>)))
       [] branch = "invalid" ->
            skipped(consume_until_semicolon(
                      Parser_error(P, "ParseError: Invalid decleration list"), <<>>))

consume_decl_list(P) == consume_decl_list_loop(P, <<>>)

(***************************************************************************)
(* One pass through the body of a loop of the parser, for each of its      *)
(* loops: the queue (for the trimming loops of consume_decleration, the    *)
(* value list) after the pass, whether the loop is left, and what was      *)
(* raised.  The operations that a pass calls run to their end within it.   *)
(***************************************************************************)
Pass(L, done, exc) == [L |-> L, done |-> done, exc |-> exc]

\* a pass that looks at the whitespace without taking it
pass_peek_whitespace(P) == Pass(P, Parser_peek(P, 1).type /= "Whitespace", "none")

\* while isinstance(parser.peek(), Whitespace): parser.next()
pass_skip_whitespace(P) ==
  IF Parser_peek(P, 1).type = "Whitespace" THEN Pass(Parser_pop(P), FALSE, "none")
  ELSE Pass(P, TRUE, "none")

\* the loops of parse_component_values and parse_comma_seperated
pass_component_values(P) ==
  LET consumed(val) == Pass(val.L, val.ret.type = "EOF", "none")
  IN consumed(consume_component_value(P))

\* the loops of consume_block and consume_function, closing the type awaited
pass_block(P, closing) ==
  LET nxt == Parser_next(P)
      component(c) == Pass(c.L, FALSE, "none")
  IN IF nxt.type = closing THEN Pass(Parser_pop(P), TRUE, "none")
     ELSE IF nxt.type = "EOF" THEN Pass(P, TRUE, "none")
     ELSE component(consume_component_value(P))

\* the loops of consume_at_rule (at_rule TRUE) and consume_qualified_rule
pass_rule(P, at_rule) ==
  LET nxt == Parser_next(P)
      block(b) == Pass(b.L, TRUE, "none")
      component(c) == Pass(c.L, FALSE, "none")
  IN IF at_rule /\ nxt.type = "Semicolon" THEN Pass(Parser_pop(P), TRUE, "none")
     ELSE IF nxt.type = "EOF" THEN Pass(P, TRUE, "none")
     ELSE IF nxt.type = "LCurlyBracket" THEN block(consume_block(Parser_pop(P), nxt))
     ELSE IF IsCurlyBlock(nxt) THEN Pass(Parser_pop(P), TRUE, "none")
     ELSE component(consume_component_value(P))

\* the loop of consume_rule_list
pass_rule_list(P, top_level) ==
  LET nxt == Parser_next(P)
      rule(r) == Pass(r.L, FALSE, "none")
      branch ==
        IF nxt.type = "Whitespace" THEN "skip"
        ELSE IF nxt.type = "EOF" THEN "return"
        ELSE IF nxt.type \in {"CDO", "CDC"} THEN (IF top_level THEN "skip" ELSE "qualified")
        ELSE IF nxt.type = "AtKeyword" THEN "at"
        ELSE "qualified"
  IN CASE branch = "skip" -> Pass(Parser_pop(P), FALSE, "none")
       [] branch = "return" -> Pass(P, TRUE, "none")
       [] branch = "at" -> rule(consume_at_rule(P))
       [] branch = "qualified" -> rule(consume_qualified_rule(P))

\* the loops that collect or skip up to the next ';' in consume_style_block
\* and consume_decl_list, and the value loop of consume_decleration
pass_until(P, stops) ==
  LET component(c) == Pass(c.L, FALSE, "none")
  IN IF Parser_peek(P, 1).type \in stops THEN Pass(P, TRUE, "none")
     ELSE component(consume_component_value(P))

\* while not isinstance(self.peek(), (Semicolon, EOF)): temp.append(self.next())
pass_next_until(P, stops) ==
  IF Parser_peek(P, 1).type \in stops THEN Pass(P, TRUE, "none")
  ELSE Pass(Parser_pop(P), FALSE, "none")

\* the loops of consume_style_block (style_block TRUE) and consume_decl_list
pass_style_block(P, style_block) ==
  LET nxt == Parser_next(P)
      rule(r) == Pass(r.L, FALSE, "none")
      decl(d) == Pass(d.L, d.exc /= "none", d.exc)
      branch ==
        IF nxt.type \in {"Whitespace", "Semicolon"} THEN "skip"
        ELSE IF nxt.type = "EOF" THEN "return"
        ELSE IF nxt.type = "AtKeyword" THEN "at"
        ELSE IF nxt.type = "Ident" THEN "decl"
        ELSE IF style_block /\ IsDelim(nxt) /\ nxt.raw = <<"&">> THEN "qualified"
        ELSE "invalid"
  IN CASE branch = "skip" -> Pass(Parser_pop(P), FALSE, "none")
       [] branch = "return" -> Pass(P, TRUE, "none")
       [] branch = "at" -> rule(consume_at_rule(P))
       [] branch = "decl" ->
            decl(decleration_of(IF style_block THEN consume_until_semicolon(Parser_pop(P), <<nxt>>)
                                ELSE next_until_semicolon(Parser_pop(P), <<nxt>>)))
       [] branch = "qualified" -> rule(consume_qualified_rule(P))
       [] branch = "invalid" ->
            rule(consume_until_semicolon(
                   Parser_error(P, IF style_block THEN "ParseError: Invalid style block syntax"
                                   ELSE "ParseError: Invalid decleration list"), <<>>))

\* while isinstance(decl.value[-1], Whitespace): decl.value.pop()
pass_trim(value) ==
  IF value = <<>> THEN Pass(Parser_of_list(value), TRUE, "IndexError")
  ELSE IF value[Len(value)].type = "Whitespace"
  THEN Pass(Parser_of_list(SubSeq(value, 1, Len(value) - 1)), FALSE, "none")
  ELSE Pass(Parser_of_list(value), TRUE, "none")

\* the loops of the parser
Loops ==
  {"skip_whitespace", "parse_component_values", "parse_comma_seperated", "consume_block",
   "consume_function", "consume_at_rule", "consume_qualified_rule", "consume_rule_list",
   "consume_rule_list_top_level", "consume_decleration_values", "until_semicolon",
   "next_until_semicolon", "consume_style_block", "consume_decl_list", "trim"}

loop_pass(loop, P) ==
  CASE loop = "skip_whitespace" -> pass_skip_whitespace(P)
    [] loop \in {"parse_component_values", "parse_comma_seperated"} -> pass_component_values(P)
    [] loop = "consume_block" -> pass_block(P, "RCurlyBracket")
    [] loop = "consume_function" -> pass_block(P, "RParantheses")
    [] loop = "consume_at_rule" -> pass_rule(P, TRUE)
    [] loop = "consume_qualified_rule" -> pass_rule(P, FALSE)
    [] loop = "consume_rule_list" -> pass_rule_list(P, FALSE)
    [] loop = "consume_rule_list_top_level" -> pass_rule_list(P, TRUE)
    [] loop = "consume_decleration_values" -> pass_until(P, {"EOF"})
    [] loop = "until_semicolon" -> pass_until(P, {"EOF", "Semicolon"})
    [] loop = "next_until_semicolon" -> pass_next_until(P, {"EOF", "Semicolon"})
    [] loop = "consume_style_block" -> pass_style_block(P, TRUE)
    [] loop = "consume_decl_list" -> pass_style_block(P, FALSE)
    [] loop = "trim" -> pass_trim(P.tokens)

\* Parse.parse_rule_list on a str
Parse_parse_rule_list(text, stdin) ==
  LET normalized(n) == IF n.exc /= "none" THEN n ELSE consume_rule_list(n.L, FALSE)
  IN normalized(Parser_of_text(text, stdin))

(***************************************************************************)
(* The texts given to the stylesheet, and their parses                     *)
(***************************************************************************)
\* what input() finds on standard input
Stdin == {"line", "eof"}

T_import == <<"@", "i", "m", "p", "o", "r", "t", " ", "a", ";">>
T_namespace == <<"@", "n", "a", "m", "e", "s", "p", "a", "c", "e", " ", "a", ";">>
T_qualified == <<"a", "{", "}">>
T_media == <<"@", "m", "e", "d", "i", "a", "{", "}">>
T_empty == <<>>
T_unclosed == <<"a">>
T_trailing == <<"a", "{", "}", "b">>
T_mixed == <<"a", "{", "}">> \o T_import \o T_namespace
              \o <<"@", "i", "m", "p", "o", "r", "t", " ", "b", ";">>
T_namespace_first == T_namespace \o T_qualified

\* rule texts for insertRule: four rules and three texts parse_rule rejects
RuleTexts == {T_import, T_namespace, T_qualified, T_media, T_empty, T_unclosed, T_trailing}

\* texts for replace
ReplaceTexts == {T_empty, T_import, T_qualified, T_mixed}

\* texts for Parse.parse_stylesheet
SheetTexts == {T_qualified, T_namespace_first}

\* the parses of these texts, computed once; any other text is parsed when
\* it is given
ParsedRuleTexts ==
  [text \in RuleTexts, stdin \in Stdin |-> Parse_parse_rule(text, stdin)]

ParsedReplaceTexts ==
  [text \in ReplaceTexts, stdin \in Stdin |-> Parse_parse_rule_list(text, stdin)]

parse_rule(text, stdin) ==
  IF text \in RuleTexts /\ stdin \in Stdin THEN ParsedRuleTexts[text, stdin]
  ELSE Parse_parse_rule(text, stdin)

parse_rule_list(text, stdin) ==
  IF text \in ReplaceTexts /\ stdin \in Stdin THEN ParsedReplaceTexts[text, stdin]
  ELSE Parse_parse_rule_list(text, stdin)

(***************************************************************************)
(* CSSStylesheet (css/parser.py).  Each method is an operator from the     *)
(* sheet's fields and the arguments to the outcome [css_rules, exc, ret].  *)
(***************************************************************************)
IMPORT == <<"i", "m", "p", "o", "r", "t">>
NAMESPACE == <<"n", "a", "m", "e", "s", "p", "a", "c", "e">>

Outcome(css_rules, exc, ret) == [css_rules |-> css_rules, exc |-> exc, ret |-> ret]

\* list.insert(index, x): a negative index counts from the end, and the
\* position is clamped to 0..len
list_insert(list, index, x) ==
  LET n == Len(list)
      i == IF index < 0 THEN (IF index + n < 0 THEN 0 ELSE index + n)
           ELSE (IF index > n THEN n ELSE index)
  IN SubSeq(list, 1, i) \o <<x>> \o SubSeq(list, i + 1, n)

\* list[index] and list.pop(index) raise IndexError outside -len..len-1
list_index_ok(list, index) == 0 - Len(list) <= index /\ index < Len(list)

list_position(list, index) == IF index < 0 THEN index + Len(list) + 1 ELSE index + 1

list_at(list, index) == list[list_position(list, index)]

list_pop(list, index) ==
  SubSeq(list, 1, list_position(list, index) - 1)
    \o SubSeq(list, list_position(list, index) + 1, Len(list))

\* isinstance(v, AtRule) and v.name in ["namespace", "import"]
is_namespace_or_import(v) == v.type = "AtRule" /\ v.name \in {NAMESPACE, IMPORT}

\* a check that lets only namespace rules stand before a namespace rule
all_namespace(css_rules) ==
  \A i \in 1..Len(css_rules) :
    css_rules[i].type = "AtRule" /\ css_rules[i].name = NAMESPACE

\* all(... for v in self.css_rules)
all_namespace_or_import(css_rules) ==
  \A i \in 1..Len(css_rules) : is_namespace_or_import(css_rules[i])

is_namespace(rule) == rule.type = "AtRule" /\ rule.name = NAMESPACE

\* parsed_rule == "@import": the rule classes define no __eq__, so a rule
\* object compared with a str is never equal
rule_equals_str(parsed_rule, text) == FALSE

\* the two guards that open insertRule and deleteRule
modification_guard(origin_clean, disallow_modification) ==
  IF ~origin_clean THEN "SecurityError"
  ELSE IF disallow_modification THEN "NotAllowedError"
  ELSE "none"

\* an insertRule that parses the rule text before it looks at the two flags
insertRule_parse_first(css_rules, origin_clean, disallow_modification, constructed, rule, index, stdin) ==
  LET guard == modification_guard(origin_clean, disallow_modification)
      parsed(parsed_rule) ==
        IF parsed_rule.exc /= "none" THEN Outcome(css_rules, parsed_rule.exc, None)
        ELSE IF guard /= "none" THEN Outcome(css_rules, guard, None)
        ELSE IF is_namespace(parsed_rule.ret) /\ ~all_namespace_or_import(css_rules)
        THEN Outcome(css_rules, "InvalidStateError", None)
        ELSE Outcome(list_insert(css_rules, index, parsed_rule.ret), "none", index)
  IN parsed(parse_rule(rule, stdin))

\* the rule text is parsed twice (parsed_rule and rule): the same outcome
insertRule(css_rules, origin_clean, disallow_modification, constructed, rule, index, stdin) ==
  LET guard == modification_guard(origin_clean, disallow_modification)
      parsed(parsed_rule) ==
        IF parsed_rule.exc /= "none" THEN Outcome(css_rules, parsed_rule.exc, None)
        ELSE IF rule_equals_str(parsed_rule.ret, <<"@">> \o IMPORT) /\ constructed
        THEN Outcome(css_rules, "SyntaxError", None)
        ELSE IF is_namespace(parsed_rule.ret) /\ ~all_namespace_or_import(css_rules)
        THEN Outcome(css_rules, "InvalidStateError", None)
        ELSE Outcome(list_insert(css_rules, index, parsed_rule.ret), "none", index)
  IN IF guard /= "none" THEN Outcome(css_rules, guard, None)
     ELSE parsed(parse_rule(rule, stdin))

\* a deleteRule without the namespace check
deleteRule_unchecked(css_rules, origin_clean, disallow_modification, index) ==
  LET guard == modification_guard(origin_clean, disallow_modification)
  IN IF guard /= "none" THEN Outcome(css_rules, guard, None)
     ELSE IF ~list_index_ok(css_rules, index) THEN Outcome(css_rules, "IndexError", None)
     ELSE Outcome(list_pop(css_rules, index), "none", None)

deleteRule(css_rules, origin_clean, disallow_modification, index) ==
  LET guard == modification_guard(origin_clean, disallow_modification)
  IN IF guard /= "none" THEN Outcome(css_rules, guard, None)
     ELSE IF ~list_index_ok(css_rules, index) THEN Outcome(css_rules, "IndexError", None)
     ELSE IF is_namespace(list_at(css_rules, index)) /\ ~all_namespace_or_import(css_rules)
     THEN Outcome(css_rules, "InvalidStateError", None)
     ELSE Outcome(list_pop(css_rules, index), "none", None)

\* a filter that keeps every at-rule
RECURSIVE filter_at_rule(_)
filter_at_rule(rules) ==
  IF rules = <<>> THEN <<>>
  ELSE IF Head(rules).type = "AtRule"
  THEN <<Head(rules)>> \o filter_at_rule(Tail(rules))
  ELSE filter_at_rule(Tail(rules))

\* filter(lambda r: isinstance(r, AtRule) and r.name == "import", rules)
RECURSIVE filter_import(_)
filter_import(rules) ==
  IF rules = <<>> THEN <<>>
  ELSE IF Head(rules).type = "AtRule" /\ Head(rules).name = IMPORT
  THEN <<Head(rules)>> \o filter_import(Tail(rules))
  ELSE filter_import(Tail(rules))

replace(css_rules, disallow_modification, constructed, text, stdin) ==
  IF ~constructed \/ disallow_modification THEN Outcome(css_rules, "NotAllowedError", None)
  ELSE LET parsed(rules) ==
             IF rules.exc /= "none" THEN Outcome(css_rules, rules.exc, None)
             ELSE Outcome(filter_import(rules.ret), "none", "self")
       IN parsed(parse_rule_list(text, stdin))

\* Parse.parse_stylesheet on a str: CSSStylesheet(location=url) with the
\* rule list of consume_rule_list(True)
parse_stylesheet(source, stdin) ==
  LET stylesheet(rules) == Outcome(rules.ret, "none", None)
      normalized(n) ==
        IF n.exc /= "none" THEN Outcome(<<>>, n.exc, None)
        ELSE stylesheet(consume_rule_list(n.L, TRUE))
  IN normalized(Parser_of_text(source, stdin))

(***************************************************************************)
(* State                                                                   *)
(***************************************************************************)
VARIABLES
  css_rules,              \* CSSStylesheet._css_rules_
  origin_clean,           \* CSSStylesheet.origin_clean
  disallow_modification,  \* CSSStylesheet.disallow_modification
  constructed,            \* CSSStylesheet.constructed
  created_by,             \* how the sheet was made: "__init__" or "parse_stylesheet"
  call,                   \* the last call on the sheet and how it ended
  pre_rules,              \* css_rules when that call was made
  lexer,                  \* a Lexer object: [source, errors]
  lex_call,               \* the last call on it (op) and how it ended
  lex_pre,                \* Lexer.source when that call was made
  supplied,               \* a list of tokens that a caller holds and hands to Parse
  parse_call,             \* the last Parse call on it (op) and how it ended
  parse_pre,              \* the list when that call was made
  parse_errors,           \* the diagnostics on the error list of that call's Parser
  loop,                   \* the loop of the parser that is running on the list, if any
  ahead                   \* what the next pass through that loop comes to

vars == <<css_rules, origin_clean, disallow_modification, constructed, created_by,
          call, pre_rules, lexer, lex_call, lex_pre, supplied, parse_call, parse_pre,
          parse_errors, loop, ahead>>

parse_vars == <<supplied, parse_call, parse_pre, parse_errors, loop, ahead>>

sheet_vars == <<css_rules, origin_clean, disallow_modification, constructed, created_by,
                call, pre_rules>>

lexer_vars == <<lexer, lex_call, lex_pre>>

(***************************************************************************)
(* Bounds and inputs                                                       *)
(***************************************************************************)
MaxRules == 3
MaxIndex == 3
MaxLen == 3

\* index arguments: the default -1, valid positions, and positions past the end
Indexes == (0 - 1)..MaxIndex

\* codepoints of the texts given to the lexer
LexAlphabet == {"a", "e", "1", ".", "_", "/", "*", "'", BSLASH, NL, "-", "+", "%", "U+20AC"}

RECURSIVE Texts(_)
Texts(n) ==
  IF n = 0 THEN {<<>>}
  ELSE LET shorter == Texts(n - 1)
       IN shorter \cup {Append(t, c) : t \in {u \in shorter : Len(u) = n - 1}, c \in LexAlphabet}

\* texts that open with a longer construct: the opening, then a short tail
MaxTail == 2

TailAlphabet == {"a", "7", " ", ")", SQUOTE, DQUOTE, NL, BSLASH, "-", ">", "U+0008"}

RECURSIVE Tails(_)
Tails(n) ==
  IF n = 0 THEN {<<>>}
  ELSE LET shorter == Tails(n - 1)
       IN shorter \cup {Append(t, c) : t \in {u \in shorter : Len(u) = n - 1}, c \in TailAlphabet}

S_cdo == <<"<", "!", "-", "-">>
S_cdc == <<"-", "-", ">">>
S_hash == <<"#">>
S_url == <<"u", "r", "l", "(", "a">>
S_string == <<SQUOTE>>
S_string_escaped_newline == <<SQUOTE, BSLASH, NL>>
S_escape_41 == <<BSLASH, "4", "1">>
S_escape_0 == <<BSLASH, "0">>
S_escape_110000 == <<BSLASH, "1", "1", "0", "0", "0", "0">>
S_escape_six == <<BSLASH, "0", "0", "0", "0", "4", "1">>
S_dimension == <<"1", "0", "p", "x">>

Stems == {S_cdo, S_cdc, S_hash, S_url, S_string, S_string_escaped_newline,
          S_escape_41, S_escape_0, S_escape_110000, S_escape_six, S_dimension}

StemTexts == {stem \o tail : stem \in Stems, tail \in Tails(MaxTail)}

\* texts that open with the three punctuation marks
S_punctuation == <<":", ";", ",">>

PunctuationTexts == {S_punctuation \o tail : tail \in Tails(MaxTail)}

\* the Delim classes and the texts a caller constructs them from
DelimClasses == {"Delim", "Colon", "Semicolon", "Comma"}

DelimTexts == {<<>>, <<"!">>, <<",">>, <<"-", "-">>, <<"!", "!", "!">>}

Call(op, text, index, exc, ret) ==
  [op |-> op, text |-> text, index |-> index, exc |-> exc, ret |-> ret]

NoLexCall == [made |-> FALSE, op |-> "none", ret |-> EOF, exc |-> "none"]

LexCall(op, ret, exc) == [made |-> TRUE, op |-> op, ret |-> ret, exc |-> exc]

ParseCall(op, ret, exc) == [op |-> op, ret |-> ret, exc |-> exc]

\* no caller has handed a list to Parse
NoParsing ==
  /\ supplied = <<>>
  /\ parse_call = ParseCall("none", None, "none")
  /\ parse_pre = <<>>
  /\ parse_errors = <<>>
  /\ loop = "none"
  /\ ahead = None

(***************************************************************************)
(* The stylesheet                                                          *)
(***************************************************************************)
\* CSSStylesheet.__init__
Init_constructor ==
  /\ css_rules = <<>>
  /\ origin_clean = TRUE
  /\ disallow_modification \in BOOLEAN
  /\ constructed = TRUE
  /\ created_by = "__init__"
  /\ call = Call("__init__", <<>>, 0, "none", None)
  /\ pre_rules = <<>>

\* Parse.parse_stylesheet
Init_parse_stylesheet ==
  \E source \in SheetTexts :
    /\ css_rules \in {parse_stylesheet(source, "line").css_rules}
    /\ origin_clean = TRUE
    /\ disallow_modification = FALSE
    /\ constructed = TRUE
    /\ created_by = "parse_stylesheet"
    /\ call = Call("parse_stylesheet", source, 0, "none", None)
    /\ pre_rules = <<>>

Init ==
  /\ Init_constructor \/ Init_parse_stylesheet
  /\ lexer = Lexer(<<>>)
  /\ lex_call = NoLexCall
  /\ lex_pre = <<>>
  /\ NoParsing

InsertRule ==
  \E rule \in RuleTexts, index \in Indexes, stdin \in Stdin :
    LET returns(o) ==
          /\ css_rules' = o.css_rules
          /\ call' = Call("insertRule", rule, index, o.exc, o.ret)
    IN /\ Len(css_rules) < MaxRules
       /\ returns(insertRule(css_rules, origin_clean, disallow_modification, constructed,
                             rule, index, stdin))
       /\ pre_rules' = css_rules
       /\ UNCHANGED <<origin_clean, disallow_modification, constructed, created_by>>
       /\ UNCHANGED <<lexer_vars, parse_vars>>

DeleteRule ==
  \E index \in Indexes :
    LET returns(o) ==
          /\ css_rules' = o.css_rules
          /\ call' = Call("deleteRule", <<>>, index, o.exc, o.ret)
    IN /\ returns(deleteRule(css_rules, origin_clean, disallow_modification, index))
       /\ pre_rules' = css_rules
       /\ UNCHANGED <<origin_clean, disallow_modification, constructed, created_by>>
       /\ UNCHANGED <<lexer_vars, parse_vars>>

Replace ==
  \E text \in ReplaceTexts, stdin \in Stdin :
    LET returns(o) ==
          /\ css_rules' = o.css_rules
          /\ call' = Call("replace", text, 0, o.exc, o.ret)
    IN /\ returns(replace(css_rules, disallow_modification, constructed, text, stdin))
       /\ pre_rules' = css_rules
       /\ UNCHANGED <<origin_clean, disallow_modification, constructed, created_by>>
       /\ UNCHANGED <<lexer_vars, parse_vars>>

\* origin_clean and constructed are public attributes that no method
\* assigns after __init__: a caller sets them
SetOriginClean ==
  \E value \in BOOLEAN :
    /\ origin_clean' = value
    /\ call' = Call("origin_clean", <<>>, 0, "none", None)
    /\ pre_rules' = css_rules
    /\ UNCHANGED <<css_rules, disallow_modification, constructed, created_by>>
    /\ UNCHANGED <<lexer_vars, parse_vars>>

SetConstructed ==
  \E value \in BOOLEAN :
    /\ constructed' = value
    /\ call' = Call("constructed", <<>>, 0, "none", None)
    /\ pre_rules' = css_rules
    /\ UNCHANGED <<css_rules, origin_clean, disallow_modification, created_by>>
    /\ UNCHANGED <<lexer_vars, parse_vars>>

Next == InsertRule \/ DeleteRule \/ Replace \/ SetOriginClean \/ SetConstructed

Spec == Init /\ [][Next]_vars

(***************************************************************************)
(* Properties of the stylesheet (checked under Spec)                       *)
(***************************************************************************)
\* the vocabulary of the properties, stated apart from the code's own checks
IsAtRuleNamed(rule, name) == rule.type = "AtRule" /\ rule.name = name

IsNamespaceRule(rule) == IsAtRuleNamed(rule, NAMESPACE)

IsImportRule(rule) == IsAtRuleNamed(rule, IMPORT)

HasNamespace(rules) == \E i \in 1..Len(rules) : IsNamespaceRule(rules[i])

HasOtherKind(rules) ==
  \E i \in 1..Len(rules) : ~(IsNamespaceRule(rules[i]) \/ IsImportRule(rules[i]))

\* rules without its i-th element, the others in their order
Without(rules, i) == SubSeq(rules, 1, i - 1) \o SubSeq(rules, i + 1, Len(rules))

\* an index argument names an element: 0 is the first, -1 the last
InRange(rules, index) == index >= 0 - Len(rules) /\ index < Len(rules)

PositionOf(rules, index) == IF index >= 0 THEN index + 1 ELSE Len(rules) + index + 1

Modifiable == origin_clean /\ ~disallow_modification

InsertOf(text) == call.op = "insertRule" /\ call.text = text

\* C1: on a sheet that started empty, after any insertRule, deleteRule and
\* replace calls, a rule list that holds an at-rule named namespace holds only
\* at-rules named namespace or import.  The code breaks it: insertRule checks
\* the list only when the inserted rule is a namespace rule.
C1_NamespaceOrdering ==
  created_by = "__init__" => (HasNamespace(css_rules) => ~HasOtherKind(css_rules))

\* C2: on a modifiable sheet, insertRule of an @namespace rule ends with
\* InvalidStateError and the rule list unchanged exactly when the list held a
\* rule that is neither a namespace nor an import at-rule; otherwise it
\* succeeds and the list is the old one with the namespace rule added.
C2_InsertNamespace ==
  (InsertOf(T_namespace) /\ Modifiable) =>
    IF HasOtherKind(pre_rules)
    THEN call.exc = "InvalidStateError" /\ css_rules = pre_rules
    ELSE /\ call.exc = "none"
         /\ \E i \in 1..Len(css_rules) :
              IsNamespaceRule(css_rules[i]) /\ Without(css_rules, i) = pre_rules

C2_Witness_Rejected ==
  /\ InsertOf(T_namespace) /\ Modifiable
  /\ HasOtherKind(pre_rules)
  /\ call.exc = "InvalidStateError"

\* C3: insertRule of an @import rule on a modifiable sheet whose constructed
\* flag is true ends with SyntaxError and leaves the rule list unchanged.
\* The code breaks it: the rule object is compared with the str "@import".
C3_ImportRejectedWhenConstructed ==
  (InsertOf(T_import) /\ Modifiable /\ constructed) =>
    (call.exc = "SyntaxError" /\ css_rules = pre_rules)

\* C4: with origin_clean false, insertRule and deleteRule end with
\* SecurityError, and with origin_clean true and disallow_modification true
\* with NotAllowedError, whatever the rule text (parseable or not) and the
\* index (in range or not), and the rule list is unchanged.
C4_GuardsBeforeParsing ==
  call.op \in {"insertRule", "deleteRule"} =>
    /\ ~origin_clean => (call.exc = "SecurityError" /\ css_rules = pre_rules)
    /\ (origin_clean /\ disallow_modification) =>
         (call.exc = "NotAllowedError" /\ css_rules = pre_rules)

C4_Witness_Unparseable ==
  /\ InsertOf(T_unclosed)
  /\ ~origin_clean
  /\ call.exc = "SecurityError"

\* C5: on a modifiable sheet, deleteRule with an index that names a rule ends
\* with InvalidStateError and the rule list unchanged when that rule is a
\* namespace at-rule and the list holds a rule that is neither namespace nor
\* import; otherwise it removes exactly that rule and keeps the others in
\* their order.
C5_DeleteRule ==
  (call.op = "deleteRule" /\ Modifiable /\ InRange(pre_rules, call.index)) =>
    IF IsNamespaceRule(pre_rules[PositionOf(pre_rules, call.index)])
         /\ HasOtherKind(pre_rules)
    THEN call.exc = "InvalidStateError" /\ css_rules = pre_rules
    ELSE /\ call.exc = "none"
         /\ css_rules = Without(pre_rules, PositionOf(pre_rules, call.index))

C5_Witness_Rejected ==
  /\ call.op = "deleteRule" /\ Modifiable
  /\ call.exc = "InvalidStateError"
  /\ Len(pre_rules) >= 2

\* C6: replace ends with NotAllowedError and the rule list unchanged when
\* disallow_modification is true or constructed is false; when it succeeds
\* the rule list is exactly the at-rules named import of the rule list parsed
\* from the text, in their order, whatever the list held before.
C6_Replace ==
  call.op = "replace" =>
    IF disallow_modification \/ ~constructed
    THEN call.exc = "NotAllowedError" /\ css_rules = pre_rules
    ELSE call.exc = "none" =>
           \E stdin \in Stdin :
             LET imports_of(parsed) ==
                   parsed.exc = "none" /\ css_rules = SelectSeq(parsed.ret, IsImportRule)
             IN imports_of(parse_rule_list(call.text, stdin))

C6_Witness_Mixed ==
  /\ call.op = "replace" /\ call.exc = "none"
  /\ call.text = T_mixed
  /\ pre_rules /= <<>>
  /\ Len(css_rules) = 2

\* C7: after a successful insertRule(text, index), for every index and the
\* default -1, the rule list is one rule longer, the rule parsed from the
\* text is the element the index names, the other rules are the old list in
\* its order, and the call returns the index.  The code breaks it:
\* list.insert(-1, rule) puts the rule before the last element and an index
\* past the end appends.
C7_InsertAtIndex ==
  (call.op = "insertRule" /\ call.exc = "none") =>
    /\ Len(css_rules) = Len(pre_rules) + 1
    /\ InRange(css_rules, call.index)
    /\ Without(css_rules, PositionOf(css_rules, call.index)) = pre_rules
    /\ \E stdin \in Stdin :
         LET parsed_is(parsed) ==
               parsed.exc = "none"
                 /\ css_rules[PositionOf(css_rules, call.index)] = parsed.ret
         IN parsed_is(parse_rule(call.text, stdin))
    /\ call.ret = call.index

\* C8: a sheet made by the constructor or by Parse.parse_stylesheet, with no
\* call made on it yet, has constructed = FALSE.  The code breaks it:
\* __init__ sets constructed to True for every sheet.
C8_ConstructedOnlyByReplace ==
  call.op \in {"__init__", "parse_stylesheet"} => constructed = FALSE

(***************************************************************************)
(* The lexer: one call per step                                            *)
(***************************************************************************)
InitLex ==
  /\ \E text \in Texts(MaxLen) : lexer = Lexer(text)
  /\ lex_call = NoLexCall
  /\ lex_pre = <<>>
  /\ css_rules = <<>>
  /\ origin_clean = TRUE
  /\ disallow_modification = FALSE
  /\ constructed = TRUE
  /\ created_by = "__init__"
  /\ call = Call("__init__", <<>>, 0, "none", None)
  /\ pre_rules = <<>>
  /\ NoParsing

\* one consume() call
Consume ==
  \E stdin \in Stdin :
    LET returns(r) ==
          /\ lexer' = r.L
          /\ lex_call' = LexCall("consume", IF r.exc = "none" THEN r.ret ELSE EOF, r.exc)
    IN /\ returns(consume(lexer, stdin))
       /\ lex_pre' = lexer.source
       /\ UNCHANGED <<sheet_vars, parse_vars>>

\* one process() call: consume() until EOF.  A call that never returns has
\* no state after it.
Process ==
  \E stdin \in Stdin :
    LET returns(r) ==
          /\ r.exc /= "<diverges>"
          /\ lexer' = r.L
          /\ lex_call' = LexCall("process", IF r.exc = "none" THEN r.ret ELSE <<>>, r.exc)
    IN /\ returns(process(lexer, stdin))
       /\ lex_pre' = lexer.source
       /\ UNCHANGED <<sheet_vars, parse_vars>>

\* next = self.next(); self._consume_escape_(next) on a backslash, as
\* _consume_ident_, _consume_url_ and _consume_remnant_bad_url_ call it
ConsumeEscape ==
  LET returns(r) ==
        /\ lexer' = r.L
        /\ lex_call' = LexCall("_consume_escape_", r.ret, r.exc)
  IN /\ next(lexer) = BSLASH
     /\ Check_escape(next(lexer), peek(lexer, 2))
     /\ returns(consume_escape(pop(lexer), next(lexer)))
     /\ lex_pre' = lexer.source
     /\ UNCHANGED <<sheet_vars, parse_vars>>

\* a caller constructs a token of one of the Delim classes
ConstructDelim ==
  \E cls \in DelimClasses, raw \in DelimTexts :
    LET returns(r) == lex_call' = LexCall(cls, r.ret, r.exc)
    IN /\ returns(Delim(cls, raw))
       /\ lex_pre' = raw
       /\ UNCHANGED lexer
       /\ UNCHANGED <<sheet_vars, parse_vars>>

NextLex == Consume \/ Process \/ ConsumeEscape

SpecLex == InitLex /\ [][NextLex]_vars

\* the same lexer on the texts that open with a longer construct
InitStems ==
  /\ \E text \in StemTexts : lexer = Lexer(text)
  /\ lex_call = NoLexCall
  /\ lex_pre = <<>>
  /\ css_rules = <<>>
  /\ origin_clean = TRUE
  /\ disallow_modification = FALSE
  /\ constructed = TRUE
  /\ created_by = "__init__"
  /\ call = Call("__init__", <<>>, 0, "none", None)
  /\ pre_rules = <<>>
  /\ NoParsing

SpecStems == InitStems /\ [][NextLex]_vars

\* the lexer on the punctuation texts, and a caller that constructs tokens
InitTokens ==
  /\ \E text \in PunctuationTexts : lexer = Lexer(text)
  /\ lex_call = NoLexCall
  /\ lex_pre = <<>>
  /\ css_rules = <<>>
  /\ origin_clean = TRUE
  /\ disallow_modification = FALSE
  /\ constructed = TRUE
  /\ created_by = "__init__"
  /\ call = Call("__init__", <<>>, 0, "none", None)
  /\ pre_rules = <<>>
  /\ NoParsing

NextTokens == NextLex \/ ConstructDelim

SpecTokens == InitTokens /\ [][NextTokens]_vars

(***************************************************************************)
(* Properties of the lexer (checked under SpecLex and SpecStems)           *)
(***************************************************************************)
\* C9: every consume() call that is made on a non-empty queue and returns a
\* token leaves the queue shorter, so that repeated calls reach EOF.  The
\* code breaks it: on '_' or a non-letter non-ASCII codepoint
\* _consume_ident_like_ finds an empty identifier, calls input() and returns
\* an Ident token with the queue as it was.
C9_ConsumeMakesProgress ==
  (lex_call.op = "consume" /\ lex_call.exc = "none" /\ lex_pre /= <<>>) =>
    Len(lexer.source) < Len(lex_pre)

\* C10: no consume() call raises.  The code breaks it: _consume_comment_
\* raises ParseError on an unterminated comment and _consume_number_ raises
\* ValueError from int() on a fraction or on an exponent without digits.
C10_ConsumeNeverRaises ==
  lex_call.op = "consume" => lex_call.exc = "none"

\* text opens with the codepoints of opening
StartsWith(text, opening) ==
  Len(text) >= Len(opening) /\ SubSeq(text, 1, Len(opening)) = opening

\* '/*' with no later '*/'
UnterminatedComment(text) ==
  /\ StartsWith(text, <<"/", "*">>)
  /\ ~\E i \in 3..(Len(text) - 1) : text[i] = "*" /\ text[i + 1] = "/"

\* C11: consume() on a text that opens with '/*' and holds no later '*/'
\* returns one Comment token whose raw is all the remaining text, leaves the
\* queue empty (the next consume() returns EOF), records a diagnostic on
\* Lexer.errors and does not raise.  The code breaks it: _consume_comment_
\* raises ParseError("Comment not closed") and records nothing.
C11_UnterminatedComment ==
  (lex_call.op = "consume" /\ UnterminatedComment(lex_pre)) =>
    /\ lex_call.exc = "none"
    /\ lex_call.ret.type = "Comment"
    /\ lex_call.ret.raw = lex_pre
    /\ lexer.source = <<>>
    /\ Len(lexer.errors) >= 1

NoEscapes(text) == \A i \in 1..Len(text) : text[i] /= BSLASH

RECURSIVE ConcatRaw(_)
ConcatRaw(tokens) ==
  IF tokens = <<>> THEN <<>> ELSE Head(tokens).raw \o ConcatRaw(Tail(tokens))

\* C12: when process() runs the lexer to exhaustion on a text without a
\* backslash, the raw fields of the tokens it returns, concatenated in
\* order, are the normalized text.  The code breaks it: String, Hash,
\* AtKeyword, Function, Percentage and Url tokens keep their raw without the
\* quotes, '#', '@', '(', '%' or 'url(' ')' that were consumed.
C12_RawRoundTrip ==
  (lex_call.op = "process" /\ lex_call.exc = "none" /\ NoEscapes(lex_pre)) =>
    ConcatRaw(lex_call.ret) = lex_pre

\* codepoints that continue an identifier, and codepoints that end one
NameCodepoints == {"a", "e", "1", "7", "p", "x", "-"}

NameEnders == {NL, " ", "/", "*", "+", "%", ".", ")", ">", SQUOTE, DQUOTE}

\* the longest prefix of text made of name codepoints
RECURSIVE NameRun(_)
NameRun(text) ==
  IF text /= <<>> /\ Head(text) \in NameCodepoints
  THEN <<Head(text)>> \o NameRun(Tail(text))
  ELSE <<>>

AfterRun(text, run) == SubSeq(text, Len(run) + 1, Len(text))

\* C13: consume() on a one-digit integer literal returns exactly one token:
\* a Percentage when '%' follows (the '%' consumed), a Dimension whose unit
\* is the following identifier when a letter follows (the identifier
\* consumed, also when it ends the text), and a Number when the text ends or
\* a codepoint that starts neither follows.  The code breaks it:
\* Check.starts_with_ident answers False when fewer than three codepoints
\* are left, so '10px' and '1a' give a Number and then an Ident.
C13_NumericSuffix ==
  (lex_call.op = "consume" /\ StartsWith(lex_pre, <<"1">>)) =>
    LET rest == Tail(lex_pre)
        unit == NameRun(rest)
    IN /\ (rest /= <<>> /\ rest[1] = "%") =>
            /\ lex_call.exc = "none"
            /\ lex_call.ret.type = "Percentage"
            /\ lexer.source = Tail(rest)
       /\ (rest /= <<>> /\ rest[1] \in {"a", "p"}
             /\ (AfterRun(rest, unit) = <<>> \/ AfterRun(rest, unit)[1] \in NameEnders)) =>
            /\ lex_call.exc = "none"
            /\ lex_call.ret.type = "Dimension"
            /\ lex_call.ret.unit = unit
            /\ lexer.source = AfterRun(rest, unit)
       /\ (rest = <<>> \/ rest[1] \in {NL, " ", "/", "*", "+", SQUOTE}) =>
            /\ lex_call.exc = "none"
            /\ lex_call.ret.type = "Number"
            /\ lexer.source = rest

\* the forms of a numeric literal, read off the text
IsDigits(text) == text /= <<>> /\ \A i \in 1..Len(text) : text[i] \in {"0", "1", "7"}

Unsigned(text) == IF text /= <<>> /\ text[1] \in {"+", "-"} THEN Tail(text) ELSE text

IsIntegerLiteral(text) == IsDigits(Unsigned(text))

IsDecimalLiteral(text) ==
  \E i \in 1..Len(Unsigned(text)) :
    /\ Unsigned(text)[i] = "."
    /\ i = 1 \/ IsDigits(SubSeq(Unsigned(text), 1, i - 1))
    /\ IsDigits(SubSeq(Unsigned(text), i + 1, Len(Unsigned(text))))

IsExponentLiteral(text) ==
  \E i \in 1..Len(text) :
    /\ text[i] \in {"e", "E"}
    /\ IsIntegerLiteral(SubSeq(text, 1, i - 1))
    /\ IsIntegerLiteral(SubSeq(text, i + 1, Len(text)))

ExponentValue(text) ==
  LET i == CHOOSE i \in 1..Len(text) : text[i] \in {"e", "E"}
  IN [mant |-> int(SubSeq(text, 1, i - 1)), exp |-> int(SubSeq(text, i + 1, Len(text)))]

\* C14: consume() on a text that is one numeric literal returns a Number
\* whose raw is the text verbatim; its subtype is 'integer' and its value the
\* integer for a signed integer, its subtype is 'number' for a decimal
\* ('1.1', '.1'), and its subtype is 'number' and its value mantissa *
\* 10^exponent for an exponent literal ('1e1' -> 10).  The code breaks it:
\* _consume_number_ calls int(raw) on the decimal text, which raises
\* ValueError, and consume() lexes '.1' as Delim('.') and Number(1).
C14_NumericLiteral ==
  (lex_call.op = "consume") =>
    /\ IsIntegerLiteral(lex_pre) =>
         /\ lex_call.exc = "none"
         /\ lex_call.ret.type = "Number"
         /\ lex_call.ret.ntype = "integer"
         /\ lex_call.ret.raw = lex_pre
         /\ lex_call.ret.value = [mant |-> int(lex_pre), exp |-> 0]
    /\ IsExponentLiteral(lex_pre) =>
         /\ lex_call.exc = "none"
         /\ lex_call.ret.type = "Number"
         /\ lex_call.ret.ntype = "number"
         /\ lex_call.ret.raw = lex_pre
         /\ lex_call.ret.value = ExponentValue(lex_pre)
    /\ IsDecimalLiteral(lex_pre) =>
         /\ lex_call.exc = "none"
         /\ lex_call.ret.type = "Number"
         /\ lex_call.ret.ntype = "number"
         /\ lex_call.ret.raw = lex_pre

\* the text after a stem, when that text cannot continue an escape or a name
EndsName(text, stem) ==
  /\ StartsWith(text, stem)
  /\ \/ Len(text) = Len(stem)
     \/ text[Len(stem) + 1] \in {")", ">", SQUOTE, DQUOTE}

\* the codepoint a hex escape stands for, for the escapes among the stems
Decoded(text) ==
  IF StartsWith(text, S_escape_41) THEN <<"A">> ELSE <<REPLACEMENT_CHAR>>

IsHexEscapeStem(text) ==
  \E stem \in {S_escape_41, S_escape_0, S_escape_110000} : EndsName(text, stem)

\* C15: a hex escape in identifier position contributes the codepoint it
\* encodes: consume() on '\41' returns an Ident whose text is 'A', and on
\* '\0' or '\110000' an Ident whose text is U+FFFD; _consume_escape_ itself
\* returns that one codepoint.  The code breaks it: _consume_escape_ returns
\* the backslash and the hex digits as they were written.
C15_HexEscapeDecoded ==
  IsHexEscapeStem(lex_pre) =>
    /\ lex_call.op = "consume" =>
         /\ lex_call.exc = "none"
         /\ lex_call.ret.type = "Ident"
         /\ lex_call.ret.raw = Decoded(lex_pre)
    /\ lex_call.op = "_consume_escape_" =>
         /\ lex_call.exc = "none"
         /\ lex_call.ret = Decoded(lex_pre)

HexDigits == {"0", "1", "2", "3", "4", "5", "6", "7", "8", "9",
              "a", "b", "c", "d", "e", "f", "A", "B", "C", "D", "E", "F"}

\* the number of hex digits text begins with
RECURSIVE HexRun(_)
HexRun(text) ==
  IF text /= <<>> /\ Head(text) \in HexDigits THEN 1 + HexRun(Tail(text)) ELSE 0

\* how many codepoints an escape takes from the text after its backslash
EscapeLength(after) ==
  LET digits == IF HexRun(after) > 6 THEN 6 ELSE HexRun(after)
  IN IF digits = 0 THEN 1
     ELSE IF Len(after) > digits /\ after[digits + 1] \in {" ", TAB, NL}
     THEN digits + 1
     ELSE digits

\* C16: _consume_escape_, called with the backslash taken and at least one
\* codepoint left, removes at most six hex digits and one whitespace
\* codepoint after them when there is one, or the single codepoint after the
\* backslash when it is no hex digit; a seventh hex digit and a second
\* whitespace codepoint stay in the input.  The code breaks it: the loop
\* runs while len(output) < 7, taking a seventh digit, and no whitespace is
\* ever taken.
C16_EscapeLength ==
  (lex_call.op = "_consume_escape_" /\ Len(lex_pre) >= 2) =>
    /\ lex_call.exc = "none"
    /\ lexer.source =
         SubSeq(lex_pre, 2 + EscapeLength(Tail(lex_pre)), Len(lex_pre))

\* where a quoted string ends, read off the text: scanning from position i,
\* a backslash and the newline after it are skipped together, the first
\* newline that is not escaped ends a bad string, the first quote equal to
\* the opening one ends the string
RECURSIVE StringEnd(_, _)
StringEnd(text, i) ==
  IF i > Len(text) THEN [kind |-> "open", at |-> i]
  ELSE IF text[i] = BSLASH /\ i < Len(text) THEN StringEnd(text, i + 2)
  ELSE IF text[i] = NL THEN [kind |-> "BadString", at |-> i]
  ELSE IF text[i] = text[1] THEN [kind |-> "String", at |-> i]
  ELSE StringEnd(text, i + 1)

\* every backslash of the text is followed by a newline
OnlyEscapedNewlines(text) ==
  \A i \in 1..Len(text) : text[i] = BSLASH => (i < Len(text) /\ text[i + 1] = NL)

\* C17: consume() on a text that opens with a quote returns a String when
\* the first unescaped terminator is the same quote, and a BadString when it
\* is a newline; the other quote kind does not end it; after a BadString a
\* diagnostic is in Lexer.errors; either way the input continues right after
\* the terminator.  The code breaks it: the escaped flag set by a backslash
\* is not cleared by the escaped newline, so the newline after an escaped
\* newline is skipped as well and no BadString is returned.
C17_StringTermination ==
  (/\ lex_call.op = "consume"
   /\ Len(lex_pre) >= 2
   /\ lex_pre[1] \in {SQUOTE, DQUOTE}
   /\ OnlyEscapedNewlines(lex_pre)
   /\ StringEnd(lex_pre, 2).kind /= "open") =>
    /\ lex_call.exc = "none"
    /\ lex_call.ret.type = StringEnd(lex_pre, 2).kind
    /\ lexer.source = SubSeq(lex_pre, StringEnd(lex_pre, 2).at + 1, Len(lex_pre))
    /\ lex_call.ret.type = "BadString" => Len(lexer.errors) >= 1

\* control codepoints of the tail alphabet that have no printed form
ControlCodepoints == {"U+0001", "U+0007", "U+0008", "U+000B", "U+000E", "U+001F", "U+007F"}

\* the text left once everything up to the next unescaped ')' is discarded
RECURSIVE AfterParen(_)
AfterParen(text) ==
  IF text = <<>> THEN <<>>
  ELSE IF Head(text) = ")" THEN Tail(text)
  ELSE IF Head(text) = BSLASH /\ Len(text) >= 2 /\ text[2] /= NL
  THEN AfterParen(Tail(Tail(text)))
  ELSE AfterParen(Tail(text))

\* the text after 'url(a' begins with something an unquoted url cannot hold
BreaksUrl(rest) ==
  /\ rest /= <<>>
  /\ \/ rest[1] \in {SQUOTE, DQUOTE, "("} \cup ControlCodepoints
     \/ Len(rest) >= 2 /\ rest[1] = BSLASH /\ rest[2] = NL

\* C18: consume() on 'url(a' followed by a quote, '(', a non-printable
\* codepoint or a backslash before a newline returns a BadUrl and leaves in
\* the input exactly the text after the next unescaped ')' (nothing when
\* there is none), so the tokens after it are those of that text.  The code
\* breaks it: Check.non_printable leaves out U+0008 (and U+000B, U+001F), so
\* such a codepoint becomes url content and a Url is returned.
C18_BadUrl ==
  (/\ lex_call.op = "consume"
   /\ StartsWith(lex_pre, S_url)
   /\ BreaksUrl(AfterRun(lex_pre, S_url))) =>
    /\ lex_call.exc = "none"
    /\ lex_call.ret.type = "BadUrl"
    /\ lexer.source = AfterParen(Tail(AfterRun(lex_pre, S_url)))

\* rest begins like an identifier: a letter, or '-' before a letter or '-'
WouldStartIdent(rest) ==
  /\ rest /= <<>>
  /\ \/ rest[1] \in {"a", "p", "x"}
     \/ rest[1] = "-" /\ Len(rest) >= 2 /\ rest[2] \in {"a", "p", "x", "-"}

\* C19: consume() on '#' followed by name codepoints (no escapes) returns a
\* Hash whose type is 'id' exactly when those codepoints would start an
\* identifier, also when the name ends the input ('#a', '#aa' are id, '#7a'
\* is unrestricted); on '#' followed by no name codepoint it returns
\* Delim('#') and takes only the '#'.  The code breaks it:
\* Check.starts_with_ident answers False when fewer than three codepoints
\* follow the '#', so '#a' and '#ab' at the end of the input are
\* unrestricted.
C19_HashType ==
  (/\ lex_call.op = "consume"
   /\ StartsWith(lex_pre, S_hash)
   /\ NoEscapes(lex_pre)) =>
    LET rest == Tail(lex_pre)
    IN IF rest /= <<>> /\ rest[1] \in NameCodepoints
       THEN /\ lex_call.exc = "none"
            /\ lex_call.ret.type = "Hash"
            /\ lex_call.ret.raw = NameRun(rest)
            /\ lex_call.ret.htype = (IF WouldStartIdent(rest) THEN "id" ELSE "unrestricted")
            /\ lexer.source = AfterRun(rest, NameRun(rest))
       ELSE /\ lex_call.exc = "none"
            /\ lex_call.ret = Token("Delim", <<"#">>)
            /\ lexer.source = rest

\* C20: consume() on a text that begins with '<!--' returns one CDO token
\* and takes exactly those four codepoints; on a text that begins with
\* '-->' it returns one CDC token and takes exactly those three.  The code
\* breaks it: after taking the first '-' the CDC test looks at the second
\* and third codepoints ahead instead of the first and second, so '-->' is
\* lexed as three Delim tokens.
C20_CommentDelimiters ==
  (lex_call.op = "consume") =>
    /\ StartsWith(lex_pre, S_cdo) =>
         /\ lex_call.exc = "none"
         /\ lex_call.ret.type = "CDO"
         /\ lex_call.ret.raw = S_cdo
         /\ lexer.source = AfterRun(lex_pre, S_cdo)
    /\ StartsWith(lex_pre, S_cdc) =>
         /\ lex_call.exc = "none"
         /\ lex_call.ret.type = "CDC"
         /\ lex_call.ret.raw = S_cdc
         /\ lexer.source = AfterRun(lex_pre, S_cdc)

(***************************************************************************)
(* Properties of the tokens the lexer gives out                            *)
(***************************************************************************)
DelimKinds == {"Delim", "Colon", "Semicolon", "Comma"}

OneCodepoint(token) == token.type \in DelimKinds => Len(token.raw) = 1

\* C21: every Delim, Colon, Semicolon and Comma token that consume() or
\* process() gives out holds exactly one codepoint in raw, and constructing
\* a token of one of these classes from more than one codepoint fails with
\* ValueError.
C21_DelimOneCodepoint ==
  /\ (lex_call.op = "consume" /\ lex_call.exc = "none") => OneCodepoint(lex_call.ret)
  /\ (lex_call.op = "process" /\ lex_call.exc = "none") =>
       \A i \in 1..Len(lex_call.ret) : OneCodepoint(lex_call.ret[i])
  /\ (lex_call.op \in DelimKinds /\ Len(lex_pre) > 1) => lex_call.exc = "ValueError"
  /\ (lex_call.op \in DelimKinds /\ lex_call.exc = "none") =>
       lex_call.ret = Token(lex_call.op, lex_pre)

\* process() gave out the three punctuation tokens and a Delim
C21_Witness_Punctuation ==
  /\ lex_call.op = "process"
  /\ lex_call.exc = "none"
  /\ \A kind \in DelimKinds : \E i \in 1..Len(lex_call.ret) : lex_call.ret[i].type = kind

\* a caller's Delim of two codepoints was refused
C21_Witness_Refused ==
  lex_call.op \in DelimKinds /\ Len(lex_pre) = 2 /\ lex_call.exc = "ValueError"

\* C22: the token sequence process() returns never holds an EOF token, and
\* consume() returns EOF exactly when the input queue was empty when it was
\* called (the queue holds codepoints only; the EOF is made on demand).
C22_NoEOFInOutput ==
  /\ (lex_call.op = "process" /\ lex_call.exc = "none") =>
       \A i \in 1..Len(lex_call.ret) : lex_call.ret[i].type /= "EOF"
  /\ (lex_call.op = "consume" /\ lex_call.exc = "none") =>
       (lex_call.ret.type = "EOF" <=> lex_pre = <<>>)
  /\ \A i \in 1..Len(lexer.source) : lexer.source[i] /= ERROR

\* process() returned two tokens or more and emptied the queue
C22_Witness_Processed ==
  /\ lex_call.op = "process"
  /\ lex_call.exc = "none"
  /\ Len(lex_call.ret) >= 2
  /\ lexer.source = <<>>

\* the last call ran the lexer to exhaustion: a process() that returned, or
\* a consume() that returned EOF
Exhausted ==
  /\ lex_call.exc = "none"
  /\ \/ lex_call.op = "process"
     \/ lex_call.op = "consume" /\ lex_call.ret.type = "EOF"

\* C23: the lexer is not restartable: once it has been run to exhaustion,
\* every later consume() returns EOF and every later process() returns the
\* empty sequence, the queue stays empty, and so it stays exhausted for good.
C23_NonRestartable ==
  [][Exhausted =>
       /\ lexer'.source = <<>>
       /\ lex_call'.exc = "none"
       /\ lex_call'.op = "consume" => lex_call'.ret = EOF
       /\ lex_call'.op = "process" => lex_call'.ret = <<>>
       /\ Exhausted']_vars

\* a process() on a lexer that had scanned its text before: the errors of
\* the first run are there, the queue was empty, no token came out
C23_Witness_SecondRun ==
  /\ lex_call.op = "process"
  /\ lex_call.exc = "none"
  /\ lex_call.ret = <<>>
  /\ lex_pre = <<>>
  /\ Len(lexer.errors) >= 1

(***************************************************************************)
(* The parser's entry points on a list that a caller supplies.             *)
(* Parse.normalize returns a list argument as it is, so the Parser that    *)
(* every entry point builds has the caller's list itself as its queue      *)
(* (Parser.tokens): what the Parser takes from its queue is taken from     *)
(* supplied, also when the call ends in an exception.                      *)
(***************************************************************************)
MaxTokens == 4

T_ident == Token("Ident", <<"a">>)
T_important == Token("Ident", <<"i", "m", "p", "o", "r", "t", "a", "n", "t">>)
T_whitespace == Token("Whitespace", <<" ">>)
T_comma == Token("Comma", <<",">>)
T_colon == Token("Colon", <<":">>)
T_semicolon == Token("Semicolon", <<";">>)
T_bang == Token("Delim", <<"!">>)
T_at_keyword == Token("AtKeyword", <<"a">>)
T_function == Token("Function", <<"a">>)
T_lcurly == Token("LCurlyBracket", <<"{">>)
T_rcurly == Token("RCurlyBracket", <<"}">>)
T_lparen == Token("LParantheses", <<"(">>)
T_rparen == Token("RParantheses", <<")">>)
T_cdo == Token("CDO", <<"<", "!", "-", "-">>)
T_cdc == Token("CDC", <<"-", "-", ">">>)

\* the tokens of values, of rules and of declarations
ValueTokens == {T_ident, T_whitespace, T_comma, T_lparen, T_rparen, T_function}

RuleTokens == {T_ident, T_whitespace, T_at_keyword, T_lcurly, T_rcurly, T_semicolon,
               T_cdo, T_cdc}

DeclTokens == {T_ident, T_important, T_whitespace, T_colon, T_bang}

RECURSIVE TokenLists(_, _)
TokenLists(alphabet, n) ==
  IF n = 0 THEN {<<>>}
  ELSE LET shorter == TokenLists(alphabet, n - 1)
       IN shorter \cup {Append(t, c) : t \in {u \in shorter : Len(u) = n - 1}, c \in alphabet}

SuppliedLists ==
  TokenLists(ValueTokens, MaxTokens) \cup TokenLists(RuleTokens, MaxTokens)
    \cup TokenLists(DeclTokens, MaxTokens)
    \cup {<<T_ident, T_colon>> \o value : value \in TokenLists(DeclTokens, MaxTokens)}

InitParse ==
  /\ supplied \in SuppliedLists
  /\ parse_call = ParseCall("none", None, "none")
  /\ parse_pre = <<>>
  /\ parse_errors = <<>>
  /\ loop = "none"
  /\ ahead = None
  /\ lexer = Lexer(<<>>)
  /\ lex_call = NoLexCall
  /\ lex_pre = <<>>
  /\ css_rules = <<>>
  /\ origin_clean = TRUE
  /\ disallow_modification = FALSE
  /\ constructed = TRUE
  /\ created_by = "__init__"
  /\ call = Call("__init__", <<>>, 0, "none", None)
  /\ pre_rules = <<>>

\* the state after an entry point has run on Parser(supplied): r.L is that
\* Parser, whose queue is the caller's list
Parsed(op, r) ==
  /\ supplied' = r.L.tokens
  /\ parse_call' = ParseCall(op, IF r.exc = "none" THEN r.ret ELSE None, r.exc)
  /\ parse_errors' = r.L.errors
  /\ UNCHANGED <<loop, ahead>>

ParseComponentValue ==
  LET returns(r) == Parsed("parse_component_value", r)
  IN /\ returns(parse_component_value_on(Parser_of_list(supplied)))
     /\ parse_pre' = supplied
     /\ UNCHANGED <<sheet_vars, lexer_vars>>

ParseCommaSeperated ==
  LET returns(r) == Parsed("parse_comma_seperated", r)
  IN /\ returns(parse_comma_seperated_on(Parser_of_list(supplied)))
     /\ parse_pre' = supplied
     /\ UNCHANGED <<sheet_vars, lexer_vars>>

ParseRule ==
  LET returns(r) == Parsed("parse_rule", r)
  IN /\ returns(parse_rule_on(Parser_of_list(supplied)))
     /\ parse_pre' = supplied
     /\ UNCHANGED <<sheet_vars, lexer_vars>>

ParseRuleList ==
  LET returns(r) == Parsed("parse_rule_list", r)
  IN /\ returns(consume_rule_list(Parser_of_list(supplied), FALSE))
     /\ parse_pre' = supplied
     /\ UNCHANGED <<sheet_vars, lexer_vars>>

\* the rules of the stylesheet that Parse.parse_stylesheet returns
ParseStylesheet ==
  LET returns(r) == Parsed("parse_stylesheet", r)
  IN /\ returns(consume_rule_list(Parser_of_list(supplied), TRUE))
     /\ parse_pre' = supplied
     /\ UNCHANGED <<sheet_vars, lexer_vars>>

ParseDecleration ==
  LET returns(r) == Parsed("parse_decleration", r)
  IN /\ returns(parse_decleration_on(Parser_of_list(supplied)))
     /\ parse_pre' = supplied
     /\ UNCHANGED <<sheet_vars, lexer_vars>>

NextParse ==
  \/ ParseComponentValue
  \/ ParseCommaSeperated
  \/ ParseRule
  \/ ParseRuleList
  \/ ParseStylesheet
  \/ ParseDecleration

SpecParse == InitParse /\ [][NextParse]_vars

(***************************************************************************)
(* Properties of the parser (checked under SpecParse)                      *)
(***************************************************************************)
\* an entry point of Parse has run on the caller's list
ParseCalled(op) == parse_call.op = op

ParseReturned(op) == parse_call.op = op /\ parse_call.exc = "none"

\* C24: a Parser owns its queue: running an entry point on a Parser built
\* from a list that the caller supplies leaves that list, and with it the
\* queue of every other Parser built from the same list, as it was.  The
\* code breaks it: Parse.normalize returns the caller's list itself, the
\* Parser pops its tokens from it, and the list comes back shortened.
C24_CallerListUntouched ==
  parse_call.op /= "none" => supplied = parse_pre

\* the token that closes what an opening token opens
Closer(token) ==
  CASE token.type = "LCurlyBracket" -> "RCurlyBracket"
    [] token.type = "LSquareBracket" -> "RSquareBracket"
    [] token.type \in {"LParantheses", "Function"} -> "RParantheses"
    [] OTHER -> "none"

\* the position of the last token of the component value that starts at
\* position i: the token itself, or for an opening token its matching closer
\* (the end of the list when it is never closed); open holds the closers
\* that are awaited, the innermost first
RECURSIVE ComponentEnd(_, _, _)
ComponentEnd(tokens, i, open) ==
  IF i > Len(tokens) THEN Len(tokens)
  ELSE IF Closer(tokens[i]) /= "none"
  THEN ComponentEnd(tokens, i + 1, <<Closer(tokens[i])>> \o open)
  ELSE IF open = <<>> THEN i
  ELSE IF tokens[i].type = Head(open)
  THEN (IF Len(open) = 1 THEN i ELSE ComponentEnd(tokens, i + 1, Tail(open)))
  ELSE ComponentEnd(tokens, i + 1, open)

IsWhitespace(tokens, i) == tokens[i].type = "Whitespace"

Significant(tokens) == {i \in 1..Len(tokens) : ~IsWhitespace(tokens, i)}

FirstSignificant(tokens) ==
  CHOOSE i \in Significant(tokens) : \A j \in Significant(tokens) : i <= j

\* apart from whitespace before and after it, tokens is one component value
IsOneComponentValue(tokens) ==
  /\ Significant(tokens) /= {}
  /\ \A j \in Significant(tokens) :
       j <= ComponentEnd(tokens, FirstSignificant(tokens), <<>>)

\* C25: parse_component_value returns a component value exactly when its
\* input, whitespace before and after it left aside, is exactly one component
\* value (a token, or a block or function up to its closer); otherwise,
\* with no component value or with a further token after the first one, it
\* fails with SyntaxError.  The value returned is the first significant
\* token, or the block or function that this token opens.
C25_ComponentValue ==
  ParseCalled("parse_component_value") =>
    IF IsOneComponentValue(parse_pre)
    THEN /\ parse_call.exc = "none"
         /\ LET first == parse_pre[FirstSignificant(parse_pre)]
            IN CASE first.type = "Function" ->
                      parse_call.ret.type = "FunctionBlock" /\ parse_call.ret.name = first.raw
                 [] Closer(first) \notin {"none"} /\ first.type /= "Function" ->
                      parse_call.ret.type = "Block" /\ parse_call.ret.token = first
                 [] OTHER -> parse_call.ret = first
    ELSE parse_call.exc = "SyntaxError"

\* a block with whitespace after it was returned as one component value
C25_Witness_Block ==
  /\ ParseReturned("parse_component_value")
  /\ parse_call.ret.type = "Block"
  /\ Len(parse_call.ret.value) >= 1
  /\ Len(parse_pre) = 4
  /\ IsWhitespace(parse_pre, 4)

IsComma(token) == token.type = "Comma"

\* tokens cut at its commas: the runs of tokens between them
RECURSIVE SplitAtCommas(_, _)
SplitAtCommas(tokens, current) ==
  IF tokens = <<>> THEN <<current>>
  ELSE IF IsComma(Head(tokens)) THEN <<current>> \o SplitAtCommas(Tail(tokens), <<>>)
  ELSE SplitAtCommas(Tail(tokens), Append(current, Head(tokens)))

\* a run without the whitespace tokens it begins and ends with
RECURSIVE Trimmed(_)
Trimmed(run) ==
  IF run = <<>> THEN run
  ELSE IF IsWhitespace(run, 1) THEN Trimmed(Tail(run))
  ELSE IF IsWhitespace(run, Len(run)) THEN Trimmed(SubSeq(run, 1, Len(run) - 1))
  ELSE run

NoNesting(tokens) == \A i \in 1..Len(tokens) : Closer(tokens[i]) = "none"

\* C26: parse_comma_seperated returns [] for an input of whitespace only;
\* no group it returns begins or ends with a whitespace token; and for an
\* input without blocks or functions whose commas all stand between
\* component values, the groups are the runs between the commas, each
\* without its leading and trailing whitespace ('a, b ,c' gives [a], [b],
\* [c]).  The code breaks it: a group is appended as it was collected, with
\* the whitespace around its values.
C26_CommaSeparated ==
  ParseCalled("parse_comma_seperated") =>
    /\ parse_call.exc = "none"
    /\ Significant(parse_pre) = {} => parse_call.ret = <<>>
    /\ \A g \in 1..Len(parse_call.ret) :
         /\ parse_call.ret[g] /= <<>>
         /\ ~IsWhitespace(parse_call.ret[g], 1)
         /\ ~IsWhitespace(parse_call.ret[g], Len(parse_call.ret[g]))
    /\ LET runs == SplitAtCommas(parse_pre, <<>>)
       IN (NoNesting(parse_pre) /\ \A g \in 1..Len(runs) : Significant(runs[g]) /= {}) =>
            parse_call.ret = [g \in 1..Len(runs) |-> Trimmed(runs[g])]

IsMarker(token) == token.type \in {"CDO", "CDC"}

\* the first component of the prelude of a qualified rule is none of kinds
PreludeStartsWithout(rule, kinds) ==
  (rule.type = "QualifiedRule" /\ rule.prelude /= <<>>) => rule.prelude[1].type \notin kinds

\* C27: in the top-level variant of the rule list (parse_stylesheet) a CDO
\* or CDC met between rules is discarded: no qualified rule begins with one,
\* and a list that begins with one gives the rules of the list without it.
\* In the nested variant (parse_rule_list) such a token starts a qualified
\* rule and is the first component of its prelude.  Whitespace between rules
\* is discarded in both: no qualified rule begins with a whitespace token.
C27_MarkersInRuleList ==
  /\ ParseCalled("parse_stylesheet") =>
       /\ parse_call.exc = "none"
       /\ \A i \in 1..Len(parse_call.ret) :
            PreludeStartsWithout(parse_call.ret[i], {"CDO", "CDC", "Whitespace"})
       /\ (parse_pre /= <<>> /\ IsMarker(Head(parse_pre))) =>
            parse_call.ret = consume_rule_list(Parser_of_list(Tail(parse_pre)), TRUE).ret
  /\ ParseCalled("parse_rule_list") =>
       /\ parse_call.exc = "none"
       /\ \A i \in 1..Len(parse_call.ret) :
            PreludeStartsWithout(parse_call.ret[i], {"Whitespace"})
       /\ (/\ Significant(parse_pre) /= {}
           /\ IsMarker(parse_pre[FirstSignificant(parse_pre)])
           /\ \E i \in 1..Len(parse_pre) : parse_pre[i].type = "LCurlyBracket") =>
            /\ parse_call.ret /= <<>>
            /\ parse_call.ret[1].type = "QualifiedRule"
            /\ parse_call.ret[1].prelude /= <<>>
            /\ parse_call.ret[1].prelude[1] = parse_pre[FirstSignificant(parse_pre)]

\* the nested variant made a rule that begins with '<!--' after whitespace
C27_Witness_NestedMarker ==
  /\ ParseReturned("parse_rule_list")
  /\ parse_pre /= <<>>
  /\ IsWhitespace(parse_pre, 1)
  /\ parse_call.ret /= <<>>
  /\ parse_call.ret[1].prelude /= <<>>
  /\ parse_call.ret[1].prelude[1].type = "CDO"

\* the top-level variant dropped a '-->' that stood between two rules
C27_Witness_TopLevelMarker ==
  /\ ParseReturned("parse_stylesheet")
  /\ Len(parse_pre) = 4
  /\ parse_pre[3].type = "CDC"
  /\ Len(parse_call.ret) = 2

\* the position of the first token of one of kinds at or after position i
\* that is not inside a block or function, 0 when there is none
RECURSIVE TopLevelFind(_, _, _)
TopLevelFind(tokens, i, kinds) ==
  IF i > Len(tokens) THEN 0
  ELSE IF tokens[i].type \in kinds THEN i
  ELSE TopLevelFind(tokens, ComponentEnd(tokens, i, <<>>) + 1, kinds)

\* the position of the last token of the rule that starts at position i:
\* an at-rule runs to its ';', to the end of its '{' block or to the end of
\* the list; a qualified rule runs to the end of its '{' block, and has no
\* end (0) without one
RuleEnd(tokens, i) ==
  LET stop == IF tokens[i].type = "AtKeyword"
              THEN TopLevelFind(tokens, i + 1, {"Semicolon", "LCurlyBracket"})
              ELSE TopLevelFind(tokens, i, {"LCurlyBracket"})
  IN IF stop = 0 THEN (IF tokens[i].type = "AtKeyword" THEN Len(tokens) ELSE 0)
     ELSE IF tokens[stop].type = "Semicolon" THEN stop
     ELSE ComponentEnd(tokens, stop, <<>>)

\* apart from whitespace before and after it, tokens is one rule
IsOneRule(tokens) ==
  /\ Significant(tokens) /= {}
  /\ RuleEnd(tokens, FirstSignificant(tokens)) /= 0
  /\ \A j \in Significant(tokens) : j <= RuleEnd(tokens, FirstSignificant(tokens))

\* C28: parse_rule returns a rule exactly when its input, whitespace before
\* and after it left aside, is one rule: an AtRule named after the
\* at-keyword when the first significant token is an at-keyword, a
\* QualifiedRule with a block otherwise.  It fails with SyntaxError when the
\* input is empty or whitespace only, when a qualified rule has no '{' block
\* before the end of the input, and when a token other than whitespace
\* follows the rule.
C28_ParseRule ==
  ParseCalled("parse_rule") =>
    IF IsOneRule(parse_pre)
    THEN /\ parse_call.exc = "none"
         /\ LET first == parse_pre[FirstSignificant(parse_pre)]
            IN IF first.type = "AtKeyword"
               THEN parse_call.ret.type = "AtRule" /\ parse_call.ret.name = first.raw
               ELSE parse_call.ret.type = "QualifiedRule" /\ parse_call.ret.block.type = "Block"
    ELSE parse_call.exc = "SyntaxError"

\* a qualified rule with a token after its block was refused
C28_Witness_TrailingToken ==
  /\ ParseCalled("parse_rule")
  /\ parse_call.exc = "SyntaxError"
  /\ Len(parse_pre) = 4
  /\ parse_pre[1].type = "Ident"
  /\ parse_pre[2].type = "LCurlyBracket"
  /\ parse_pre[3].type = "RCurlyBracket"
  /\ parse_pre[4].type = "Ident"

\* an at-rule with whitespace before and after it was returned
C28_Witness_AtRule ==
  /\ ParseReturned("parse_rule")
  /\ parse_call.ret.type = "AtRule"
  /\ Len(parse_pre) = 4
  /\ IsWhitespace(parse_pre, 1)
  /\ IsWhitespace(parse_pre, 4)

\* the position of the first significant token after position i, 0 if none
NextSignificant(tokens, i) ==
  IF \E j \in Significant(tokens) : j > i
  THEN CHOOSE j \in Significant(tokens) : j > i /\ \A k \in Significant(tokens) : k > i => j <= k
  ELSE 0

\* the first significant token is an identifier and the next one is a colon
HasNameAndColon(tokens) ==
  /\ Significant(tokens) /= {}
  /\ tokens[FirstSignificant(tokens)].type = "Ident"
  /\ NextSignificant(tokens, FirstSignificant(tokens)) /= 0
  /\ tokens[NextSignificant(tokens, FirstSignificant(tokens))].type = "Colon"

\* C29: parse_decleration fails with SyntaxError when the first significant
\* token is not an identifier or the identifier is not followed, after
\* optional whitespace, by a colon; otherwise it returns a Declaration whose
\* name is that identifier.  The code breaks it: with nothing after the
\* colon ('a:') consume_decleration reads value[-1] of an empty list and
\* ends in IndexError.
C29_ParseDeclaration ==
  ParseCalled("parse_decleration") =>
    IF HasNameAndColon(parse_pre)
    THEN /\ parse_call.exc = "none"
         /\ parse_call.ret.type = "Decleration"
         /\ parse_call.ret.name = parse_pre[FirstSignificant(parse_pre)].raw
    ELSE parse_call.exc = "SyntaxError"

\* the tokens after the colon of a declaration
AfterColon(tokens) ==
  SubSeq(tokens, NextSignificant(tokens, FirstSignificant(tokens)) + 1, Len(tokens))

\* a declaration whose colon is followed by at least one significant token,
\* none of them opening or closing a block
HasValue(tokens) ==
  /\ HasNameAndColon(tokens)
  /\ Significant(AfterColon(tokens)) /= {}
  /\ NoNesting(AfterColon(tokens))

\* the run ends with a '!' delimiter immediately followed by 'important'
EndsWithPair(run) ==
  /\ Len(run) >= 2
  /\ run[Len(run) - 1].type = "Delim"
  /\ run[Len(run) - 1].raw = <<"!">>
  /\ run[Len(run)].type = "Ident"
  /\ run[Len(run)].raw = <<"i", "m", "p", "o", "r", "t", "a", "n", "t">>

WithoutPair(run) == SubSeq(run, 1, Len(run) - 2)

\* C30: a parsed declaration has important = TRUE exactly when its value,
\* trailing whitespace trimmed, ends with a '!' delimiter immediately
\* followed by an 'important' identifier; the pair is then removed and the
\* whitespace trimmed again, so the value never ends with whitespace
\* ('color: red !important' gives value [red], important TRUE).  The code
\* breaks it: when the pair is the whole value ('a:!important') the second
\* trim reads value[-1] of an empty list and ends in IndexError.
C30_Important ==
  ParseCalled("parse_decleration") /\ HasValue(parse_pre) =>
    /\ parse_call.exc = "none"
    /\ parse_call.ret.important = EndsWithPair(Trimmed(AfterColon(parse_pre)))
    /\ parse_call.ret.value =
         IF EndsWithPair(Trimmed(AfterColon(parse_pre)))
         THEN Trimmed(WithoutPair(Trimmed(AfterColon(parse_pre))))
         ELSE Trimmed(AfterColon(parse_pre))
    /\ \/ parse_call.ret.value = <<>>
       \/ ~IsWhitespace(parse_call.ret.value, Len(parse_call.ret.value))

(***************************************************************************)
(* The consume operations of a Parser and the remaining entry points of    *)
(* Parse, run on a list of tokens that a caller supplies; a stylesheet     *)
(* parsed from a text, and the style block of one of its rules.            *)
(***************************************************************************)
T_lsquare == Token("LSquareBracket", <<"[">>)
T_rsquare == Token("RSquareBracket", <<"]">>)
T_amp == Token("Delim", <<"&">>)

\* the tokens of blocks and of style blocks
BlockTokens == {T_ident, T_lcurly, T_rcurly, T_lparen, T_rparen, T_lsquare, T_rsquare}

StyleTokens == {T_ident, T_colon, T_semicolon, T_at_keyword, T_lcurly, T_rcurly, T_amp}

SeparatorTokens == {T_ident, T_colon, T_semicolon, T_whitespace}

\* a nested rule or an at-rule, followed by declarations
NestedFirst ==
  {rule \o rest : rule \in {<<T_at_keyword, T_semicolon>>, <<T_amp, T_lcurly, T_rcurly>>},
                  rest \in TokenLists(SeparatorTokens, MaxTokens)}

ConsumedLists ==
  TokenLists(BlockTokens, MaxTokens) \cup TokenLists(StyleTokens, MaxTokens) \cup NestedFirst

\* 'div { color: blue !important; }' and shorter sheets
S_div_color_blue ==
  <<"d", "i", "v", " ", "{", " ", "c", "o", "l", "o", "r", ":", " ", "b", "l", "u", "e",
    " ", "!", "i", "m", "p", "o", "r", "t", "a", "n", "t", ";", " ", "}">>

StyleSheetTexts ==
  {S_div_color_blue, <<"a", "{", "}">>, <<"a", "{", "b", ":", "c", "}">>,
   <<"a", "{", "b", " ", "c", "}">>, <<"a", "{", "b", ":", "c", ";", "d", ":", "e", "}">>}

InitConsume ==
  /\ supplied \in ConsumedLists
  /\ parse_call = ParseCall("none", None, "none")
  /\ parse_pre = <<>>
  /\ parse_errors = <<>>
  /\ loop = "none"
  /\ ahead = None
  /\ lexer = Lexer(<<>>)
  /\ lex_call = NoLexCall
  /\ lex_pre = <<>>
  /\ css_rules = <<>>
  /\ origin_clean = TRUE
  /\ disallow_modification = FALSE
  /\ constructed = TRUE
  /\ created_by = "__init__"
  /\ call = Call("__init__", <<>>, 0, "none", None)
  /\ pre_rules = <<>>

IsOpening(token) == token.type \in {"LCurlyBracket", "LSquareBracket", "LParantheses"}

\* opening = parser.next(); parser.consume_block(opening)
ConsumeBlock ==
  LET returns(r) == Parsed("consume_block", r)
  IN /\ supplied /= <<>>
     /\ IsOpening(Head(supplied))
     /\ returns(consume_block(Parser_pop(Parser_of_list(supplied)), Head(supplied)))
     /\ parse_pre' = supplied
     /\ UNCHANGED <<sheet_vars, lexer_vars>>

\* consume_at_rule, called as its callers do with an at-keyword first
ConsumeAtRule ==
  LET returns(r) == Parsed("consume_at_rule", r)
  IN /\ supplied /= <<>>
     /\ Head(supplied).type = "AtKeyword"
     /\ returns(consume_at_rule(Parser_of_list(supplied)))
     /\ parse_pre' = supplied
     /\ UNCHANGED <<sheet_vars, lexer_vars>>

ConsumeQualifiedRule ==
  LET returns(r) == Parsed("consume_qualified_rule", r)
  IN /\ returns(consume_qualified_rule(Parser_of_list(supplied)))
     /\ parse_pre' = supplied
     /\ UNCHANGED <<sheet_vars, lexer_vars>>

ParseComponentValues ==
  LET returns(r) == Parsed("parse_component_values", r)
  IN /\ returns(parse_component_values_on(Parser_of_list(supplied), <<>>))
     /\ parse_pre' = supplied
     /\ UNCHANGED <<sheet_vars, lexer_vars>>

ParseStyleBlock ==
  LET returns(r) == Parsed("parse_style_block", r)
  IN /\ returns(consume_style_block(Parser_of_list(supplied)))
     /\ parse_pre' = supplied
     /\ UNCHANGED <<sheet_vars, lexer_vars>>

ParseDeclList ==
  LET returns(r) == Parsed("parse_decl_list", r)
  IN /\ returns(consume_decl_list(Parser_of_list(supplied)))
     /\ parse_pre' = supplied
     /\ UNCHANGED <<sheet_vars, lexer_vars>>

\* Parse.parse_stylesheet on a str: Parser(source).consume_rule_list(True)
Parse_parse_stylesheet(text, stdin) ==
  LET normalized(n) == IF n.exc /= "none" THEN n ELSE consume_rule_list(n.L, TRUE)
  IN normalized(Parser_of_text(text, stdin))

\* the sheets of these texts and the queues they were parsed from, computed
\* once
ParsedStyleSheetTexts == [text \in StyleSheetTexts |-> Parse_parse_stylesheet(text, "eof")]

LexedStyleSheetTexts == [text \in StyleSheetTexts |-> process(Lexer(text), "eof").ret]

\* Parse.parse_stylesheet on a text: the queue is the lexer's output, which
\* no caller holds; parse_pre is that queue
ParseStylesheetText ==
  LET returns(r) ==
        /\ parse_call' = ParseCall("parse_stylesheet_text",
                                   IF r.exc = "none" THEN r.ret ELSE None, r.exc)
        /\ parse_errors' = IF r.exc = "none" THEN r.L.errors ELSE <<>>
        /\ UNCHANGED <<loop, ahead>>
  IN \E text \in StyleSheetTexts :
       /\ returns(ParsedStyleSheetTexts[text])
       /\ parse_pre' = LexedStyleSheetTexts[text]
       /\ UNCHANGED <<supplied, sheet_vars, lexer_vars>>

\* Parse.parse_style_block(rule.block.value) for a rule of the sheet parsed
\* last: the block's value list is the queue
StyleBlockOfRule ==
  LET returns(r) == Parsed("style_block_of_rule", r)
  IN /\ parse_call.op = "parse_stylesheet_text"
     /\ parse_call.exc = "none"
     /\ \E i \in 1..Len(parse_call.ret) :
          /\ parse_call.ret[i].block.type = "Block"
          /\ returns(consume_style_block(Parser_of_list(parse_call.ret[i].block.value)))
          /\ parse_pre' = parse_call.ret[i].block.value
     /\ UNCHANGED <<sheet_vars, lexer_vars>>

NextConsume ==
  \/ NextParse
  \/ ConsumeBlock
  \/ ConsumeAtRule
  \/ ConsumeQualifiedRule
  \/ ParseComponentValues
  \/ ParseStyleBlock
  \/ ParseDeclList
  \/ ParseStylesheetText
  \/ StyleBlockOfRule

SpecConsume == InitConsume /\ [][NextConsume]_vars

(***************************************************************************)
(* Properties of the consume operations (checked under SpecConsume)        *)
(***************************************************************************)
\* the position of the token that closes the last of the awaited closers in
\* open (the innermost first), looking from position i; 0 when the list
\* ends first
RECURSIVE Match(_, _, _)
Match(tokens, i, open) ==
  IF i > Len(tokens) THEN 0
  ELSE IF Closer(tokens[i]) /= "none"
  THEN Match(tokens, i + 1, <<Closer(tokens[i])>> \o open)
  ELSE IF tokens[i].type = Head(open)
  THEN (IF Len(open) = 1 THEN i ELSE Match(tokens, i + 1, Tail(open)))
  ELSE Match(tokens, i + 1, open)

\* the closers still awaited when the list ends
RECURSIVE OpenAtEnd(_, _, _)
OpenAtEnd(tokens, i, open) ==
  IF i > Len(tokens) \/ open = <<>> THEN open
  ELSE IF Closer(tokens[i]) /= "none"
  THEN OpenAtEnd(tokens, i + 1, <<Closer(tokens[i])>> \o open)
  ELSE IF tokens[i].type = Head(open) THEN OpenAtEnd(tokens, i + 1, Tail(open))
  ELSE OpenAtEnd(tokens, i + 1, open)

\* the types of the tokens from position i that are content of what open
\* awaits: all but the closers that end a block or function
RECURSIVE ContentTypes(_, _, _)
ContentTypes(tokens, i, open) ==
  IF i > Len(tokens) \/ open = <<>> THEN <<>>
  ELSE IF Closer(tokens[i]) /= "none"
  THEN <<tokens[i].type>> \o ContentTypes(tokens, i + 1, <<Closer(tokens[i])>> \o open)
  ELSE IF tokens[i].type = Head(open) THEN ContentTypes(tokens, i + 1, Tail(open))
  ELSE <<tokens[i].type>> \o ContentTypes(tokens, i + 1, open)

\* the types of the tokens held in a list of component values, in order
RECURSIVE FlatTypes(_)
FlatTypes(components) ==
  IF components = <<>> THEN <<>>
  ELSE (CASE Head(components).type = "Block" ->
               <<Head(components).token.type>> \o FlatTypes(Head(components).value)
          [] Head(components).type = "FunctionBlock" ->
               <<"Function">> \o FlatTypes(Head(components).value)
          [] OTHER -> <<Head(components).type>>)
       \o FlatTypes(Tail(components))

ClosingTypes == {"RCurlyBracket", "RSquareBracket", "RParantheses"}

\* C31: consume_block ends a Block only at a closing bracket of the kind
\* that matches the Block's opening bracket: the queue is left just
\* after that bracket, no diagnostic is recorded, and every token before it,
\* a closing bracket of another kind included, is content of the Block.
\* When the input ends first it does not raise, returns the Block with
\* what it collected, and records one diagnostic for each block left open.
C31_ConsumeBlock ==
  ParseCalled("consume_block") =>
    /\ parse_call.exc = "none"
    /\ parse_call.ret.type = "Block"
    /\ parse_call.ret.token = parse_pre[1]
    /\ FlatTypes(parse_call.ret.value) = ContentTypes(parse_pre, 2, <<Closer(parse_pre[1])>>)
    /\ IF Match(parse_pre, 2, <<Closer(parse_pre[1])>>) /= 0
       THEN /\ parse_pre[Match(parse_pre, 2, <<Closer(parse_pre[1])>>)].type
                 = Closer(parse_pre[1])
            /\ supplied = SubSeq(parse_pre, Match(parse_pre, 2, <<Closer(parse_pre[1])>>) + 1,
                                 Len(parse_pre))
            /\ parse_errors = <<>>
       ELSE /\ supplied = <<>>
            /\ Len(parse_errors) = Len(OpenAtEnd(parse_pre, 2, <<Closer(parse_pre[1])>>))
            /\ parse_errors[Len(parse_errors)] = "ParseError: Block was not closed"

\* an unterminated block that holds a closing bracket of another kind
C31_Witness_Unterminated ==
  /\ ParseCalled("consume_block")
  /\ parse_errors = <<"ParseError: Block was not closed">>
  /\ \E i \in 1..Len(parse_call.ret.value) : parse_call.ret.value[i].type \in ClosingTypes

\* a block that ends at its own closing bracket after one of another kind
C31_Witness_OtherCloser ==
  /\ ParseCalled("consume_block")
  /\ parse_errors = <<>>
  /\ supplied /= <<>>
  /\ \E i \in 1..Len(parse_call.ret.value) : parse_call.ret.value[i].type \in ClosingTypes

\* the types of the tokens that tokens holds as content, the closers that
\* end a block or function of the list left out
PreludeTypes(tokens) == ContentTypes(tokens, 1, <<"EOF">>)

Count(errors, e) == Cardinality({i \in 1..Len(errors) : errors[i] = e})

\* what a rule that stopped at position stop of parse_pre holds and leaves:
\* the prelude is what stood from position from up to the stop, in order;
\* at a ';' the rule has no block, at a '{' it has the block that opens there
StoppedAt(rule, from, stop) ==
  /\ FlatTypes(rule.prelude) = PreludeTypes(SubSeq(parse_pre, from, stop - 1))
  /\ IF parse_pre[stop].type = "Semicolon"
     THEN /\ rule.block = NoneObj
          /\ supplied = SubSeq(parse_pre, stop + 1, Len(parse_pre))
     ELSE /\ rule.block.type = "Block"
          /\ rule.block.token = parse_pre[stop]
          /\ FlatTypes(rule.block.value) = ContentTypes(parse_pre, stop + 1, <<"RCurlyBracket">>)
          /\ supplied = SubSeq(parse_pre, ComponentEnd(parse_pre, stop, <<>>) + 1,
                               Len(parse_pre))

\* C32: consume_at_rule stops at the first ';' or '{' block after the
\* at-keyword that is not inside a block or function, and at the end of the
\* input returns the at-rule with one diagnostic of its own;
\* consume_qualified_rule stops only at such a '{' block, and at the end of
\* the input records one diagnostic and returns no rule; in both, the
\* component values before the terminator are the prelude, in input order.
C32_RuleTermination ==
  /\ ParseCalled("consume_at_rule") =>
       /\ parse_call.exc = "none"
       /\ parse_call.ret.type = "AtRule"
       /\ parse_call.ret.name = parse_pre[1].raw
       /\ IF TopLevelFind(parse_pre, 2, {"Semicolon", "LCurlyBracket"}) /= 0
          THEN StoppedAt(parse_call.ret, 2,
                         TopLevelFind(parse_pre, 2, {"Semicolon", "LCurlyBracket"}))
          ELSE /\ parse_call.ret.block = NoneObj
               /\ FlatTypes(parse_call.ret.prelude)
                    = PreludeTypes(SubSeq(parse_pre, 2, Len(parse_pre)))
               /\ supplied = <<>>
               /\ Count(parse_errors, "ParseError: At Rule missing semi-colon") = 1
               /\ parse_errors[Len(parse_errors)] = "ParseError: At Rule missing semi-colon"
  /\ ParseCalled("consume_qualified_rule") =>
       /\ parse_call.exc = "none"
       /\ IF TopLevelFind(parse_pre, 1, {"LCurlyBracket"}) /= 0
          THEN /\ parse_call.ret.type = "QualifiedRule"
               /\ StoppedAt(parse_call.ret, 1, TopLevelFind(parse_pre, 1, {"LCurlyBracket"}))
          ELSE /\ parse_call.ret = NoneObj
               /\ supplied = <<>>
               /\ Count(parse_errors, "ParseError: Qualified rule is not closed") = 1
               /\ parse_errors[Len(parse_errors)] = "ParseError: Qualified rule is not closed"

\* a qualified rule went past a ';' to its block
C32_Witness_PastSemicolon ==
  /\ ParseCalled("consume_qualified_rule")
  /\ parse_call.ret.type = "QualifiedRule"
  /\ \E i \in 1..Len(parse_call.ret.prelude) : parse_call.ret.prelude[i].type = "Semicolon"

\* an at-rule with a prelude stopped at a ';' that other tokens follow
C32_Witness_AtSemicolon ==
  /\ ParseCalled("consume_at_rule")
  /\ parse_call.ret.prelude /= <<>>
  /\ parse_call.ret.block = NoneObj
  /\ parse_errors = <<>>
  /\ supplied /= <<>>

\* how the rule that starts at position i ends: an at-rule at a ';', at a
\* '{' block or at the end of the input, a qualified rule at a '{' block
Ending(tokens, i) ==
  LET stop == TopLevelFind(tokens, i + 1, {"Semicolon", "LCurlyBracket"})
  IN IF tokens[i].type /= "AtKeyword" THEN [kind |-> "QualifiedRule", at |-> "{"]
     ELSE IF stop = 0 THEN [kind |-> "AtRule", at |-> "end"]
     ELSE IF tokens[stop].type = "Semicolon" THEN [kind |-> "AtRule", at |-> ";"]
     ELSE [kind |-> "AtRule", at |-> "{"]

\* the endings of the rules of a rule list, in order, from position i on
RECURSIVE ExpectedRules(_, _, _)
ExpectedRules(tokens, i, top_level) ==
  IF i > Len(tokens) THEN <<>>
  ELSE IF IsWhitespace(tokens, i) \/ (top_level /\ IsMarker(tokens[i]))
  THEN ExpectedRules(tokens, i + 1, top_level)
  ELSE IF RuleEnd(tokens, i) = 0 THEN <<>>
  ELSE <<Ending(tokens, i)>> \o ExpectedRules(tokens, RuleEnd(tokens, i) + 1, top_level)

OwnsCurlyBlock(rule) == rule.block.type = "Block" /\ rule.block.token.type = "LCurlyBracket"

\* the rule is of the kind and has the block that its ending gives it
RuleAsEnded(rule, ending) ==
  /\ rule.type = ending.kind
  /\ IF ending.at = "{" THEN OwnsCurlyBlock(rule) ELSE rule.block = NoneObj

\* C33: every QualifiedRule that parse_stylesheet, parse_rule_list or
\* parse_rule returns has a block, opened by '{'; an AtRule that they
\* return has no block exactly when it ended at a ';' or at the end of the
\* input, and the block opened by '{' when a '{' was consumed for it.
C33_RulesOwnBlocks ==
  /\ \A op \in {"parse_rule_list", "parse_stylesheet"} :
       ParseReturned(op) =>
         /\ Len(parse_call.ret) = Len(ExpectedRules(parse_pre, 1, op = "parse_stylesheet"))
         /\ \A i \in 1..Len(parse_call.ret) :
              RuleAsEnded(parse_call.ret[i],
                          ExpectedRules(parse_pre, 1, op = "parse_stylesheet")[i])
  /\ ParseReturned("parse_rule") =>
       RuleAsEnded(parse_call.ret, Ending(parse_pre, FirstSignificant(parse_pre)))

\* a rule list with an at-rule that ended at ';' and a rule that has a block
C33_Witness_BothEndings ==
  /\ ParseReturned("parse_rule_list")
  /\ \E i, j \in 1..Len(parse_call.ret) :
       /\ parse_call.ret[i].type = "AtRule"
       /\ parse_call.ret[i].block = NoneObj
       /\ OwnsCurlyBlock(parse_call.ret[j])

\* tokens cut at its semicolons: the runs of tokens between them
RECURSIVE SplitAtSemicolons(_, _)
SplitAtSemicolons(tokens, current) ==
  IF tokens = <<>> THEN <<current>>
  ELSE IF Head(tokens).type = "Semicolon"
  THEN <<current>> \o SplitAtSemicolons(Tail(tokens), <<>>)
  ELSE SplitAtSemicolons(Tail(tokens), Append(current, Head(tokens)))

\* a run that starts, whitespace left aside, with an identifier
StartsDeclaration(run) ==
  Significant(run) /= {} /\ run[FirstSignificant(run)].type = "Ident"

\* among the runs between the semicolons of a list without blocks there is
\* a declaration without a colon
ColonlessDeclaration(tokens) ==
  /\ NoNesting(tokens)
  /\ \E k \in 1..Len(SplitAtSemicolons(tokens, <<>>)) :
       /\ StartsDeclaration(SplitAtSemicolons(tokens, <<>>)[k])
       /\ ~HasNameAndColon(SplitAtSemicolons(tokens, <<>>)[k])

\* C34: consume_style_block and consume_decl_list do not raise on malformed
\* input: a declaration without a colon is recorded on the error list of
\* the Parser that runs them, and parsing goes on.  The code breaks it: they
\* hand the declaration to Parse.parse_decleration, whose SyntaxError (and
\* IndexError) passes through them, and the diagnostic is recorded on a
\* Parser of its own that is thrown away.
C34_ConsumeNeverRaises ==
  \A op \in {"parse_style_block", "parse_decl_list"} :
    ParseCalled(op) =>
      /\ parse_call.exc = "none"
      /\ ColonlessDeclaration(parse_pre) => parse_errors /= <<>>

\* the tokens of 'div { color: blue !important; }'
DivColorBlue ==
  <<[type |-> "Ident", raw |-> <<"d", "i", "v">>],
    [type |-> "Whitespace", raw |-> <<" ">>],
    [type |-> "LCurlyBracket", raw |-> <<"{">>],
    [type |-> "Whitespace", raw |-> <<" ">>],
    [type |-> "Ident", raw |-> <<"c", "o", "l", "o", "r">>],
    [type |-> "Colon", raw |-> <<":">>],
    [type |-> "Whitespace", raw |-> <<" ">>],
    [type |-> "Ident", raw |-> <<"b", "l", "u", "e">>],
    [type |-> "Whitespace", raw |-> <<" ">>],
    [type |-> "Delim", raw |-> <<"!">>],
    [type |-> "Ident", raw |-> <<"i", "m", "p", "o", "r", "t", "a", "n", "t">>],
    [type |-> "Semicolon", raw |-> <<";">>],
    [type |-> "Whitespace", raw |-> <<" ">>],
    [type |-> "RCurlyBracket", raw |-> <<"}">>]>>

\* what stands between its brackets
DivBlockContents == SubSeq(DivColorBlue, 4, 13)

\* C35: parse_stylesheet on 'div { color: blue !important; }' yields one
\* rule, a QualifiedRule with the prelude [Ident div, Whitespace]; the
\* contents of its block, parsed as a style block, are one Declaration
\* with name 'color', value [Ident blue] and important TRUE; neither parse
\* records a diagnostic.
C35_DivColorBlue ==
  /\ ParseCalled("parse_stylesheet_text") /\ parse_pre = DivColorBlue =>
       /\ parse_call.exc = "none"
       /\ Len(parse_call.ret) = 1
       /\ parse_call.ret[1].type = "QualifiedRule"
       /\ parse_call.ret[1].prelude = SubSeq(DivColorBlue, 1, 2)
       /\ parse_call.ret[1].block.type = "Block"
       /\ parse_call.ret[1].block.value = DivBlockContents
       /\ parse_errors = <<>>
  /\ ParseCalled("style_block_of_rule") /\ parse_pre = DivBlockContents =>
       /\ parse_call.exc = "none"
       /\ parse_call.ret = <<[type |-> "Decleration",
                              name |-> <<"c", "o", "l", "o", "r">>,
                              value |-> <<DivColorBlue[8]>>,
                              important |-> TRUE]>>
       /\ parse_errors = <<>>

\* the block contents of the rule of that sheet were parsed as a style block
C35_Witness_StyleBlock ==
  /\ ParseCalled("style_block_of_rule")
  /\ parse_pre = DivBlockContents
  /\ Len(parse_call.ret) = 1

(***************************************************************************)
(* The loops of the parser, one pass at a step: a loop is started on the   *)
(* list a caller has handed over and makes passes until it is left.  A pass is made whenever a loop *)
(* is running: nothing but the loop itself holds the parser back.          *)
(***************************************************************************)
LoopTokens ==
  {T_ident, T_whitespace, T_semicolon, T_colon, T_lcurly, T_rcurly, T_at_keyword}

InitLoops ==
  /\ supplied = <<>>
  /\ parse_call = ParseCall("none", None, "none")
  /\ parse_pre = <<>>
  /\ parse_errors = <<>>
  /\ loop = "none"
  /\ ahead = None
  /\ lexer = Lexer(<<>>)
  /\ lex_call = NoLexCall
  /\ lex_pre = <<>>
  /\ css_rules = <<>>
  /\ origin_clean = TRUE
  /\ disallow_modification = FALSE
  /\ constructed = TRUE
  /\ created_by = "__init__"
  /\ call = Call("__init__", <<>>, 0, "none", None)
  /\ pre_rules = <<>>

\* a caller hands a list of tokens to the parser
SupplyList ==
  /\ loop = "none"
  /\ parse_call.op = "none"
  /\ supplied = <<>>
  /\ supplied' \in TokenLists(LoopTokens, MaxTokens) \ {<<>>}
  /\ UNCHANGED <<parse_call, parse_pre, parse_errors, loop, ahead, sheet_vars, lexer_vars>>

\* the parser comes to one of its loops
StartLoop ==
  /\ loop = "none"
  /\ \E l \in Loops :
       /\ loop' = l
       /\ parse_call' = ParseCall(l, None, "none")
       /\ ahead' = loop_pass(l, Parser_of_list(supplied))
  /\ parse_pre' = supplied
  /\ parse_errors' = <<>>
  /\ UNCHANGED <<supplied, sheet_vars, lexer_vars>>

\* one pass through the body of the running loop: the list, the loop and
\* the diagnostics after it
Passed ==
  /\ loop /= "none"
  /\ supplied' = ahead.L.tokens
  /\ parse_errors' = parse_errors \o ahead.L.errors
  /\ parse_call' = ParseCall(loop, None, ahead.exc)
  /\ loop' = IF ahead.done THEN "none" ELSE loop
  /\ UNCHANGED <<parse_pre, sheet_vars, lexer_vars>>

LoopPass ==
  /\ Passed
  /\ ahead' = IF ahead.done THEN None ELSE loop_pass(loop, Parser_of_list(ahead.L.tokens))

NextLoops == SupplyList \/ StartLoop \/ LoopPass

\* what a pass can change of the parser
pass_vars == <<supplied, parse_call, parse_errors, loop>>

\* a running loop goes on to its next pass
SpecLoops == InitLoops /\ [][NextLoops]_vars /\ WF_pass_vars(Passed)

E_nothing == <<>>
E_url_open == <<"u", "r", "l", "(">>
E_comment_open == <<"/", "*">>
E_comment_star == <<"/", "*", "a", "*">>
E_comment_closed == <<"/", "*", "a", "*", "/">>
E_number == <<"1">>
E_name == <<"a">>
E_dimension == <<"1", "-", "a">>

Endings == {E_nothing, E_url_open, S_url, E_comment_open, E_comment_star,
            E_comment_closed, E_number, E_name, E_dimension, S_hash, S_string}

EndingTexts == {ending \o tail : ending \in Endings, tail \in Tails(MaxTail)}

InitEndings ==
  /\ \E text \in EndingTexts : lexer = Lexer(text)
  /\ lex_call = NoLexCall
  /\ lex_pre = <<>>
  /\ css_rules = <<>>
  /\ origin_clean = TRUE
  /\ disallow_modification = FALSE
  /\ constructed = TRUE
  /\ created_by = "__init__"
  /\ call = Call("__init__", <<>>, 0, "none", None)
  /\ pre_rules = <<>>
  /\ NoParsing

SpecEndings == InitEndings /\ [][NextLex]_vars

\* the text holds the value that next() returns on an empty queue
HoldsSentinel(text) == \E i \in 1..Len(text) : text[i] = ERROR

TokenHoldsSentinel(token) ==
  \/ HoldsSentinel(token.raw)
  \/ token.type = "Dimension" /\ HoldsSentinel(token.unit)

\* C37: the value next() returns on an empty queue ('_error_') is never
\* part of the raw text of a token, nor of the unit of a Dimension, that
\* consume() or process() returns, nor of the text an escape decodes to,
\* whatever the input, the inputs that end within 'url(', a comment, a
\* string or an escape included.
C37_SentinelNeverStored ==
  /\ (lex_call.op = "consume" /\ lex_call.exc = "none") =>
       ~TokenHoldsSentinel(lex_call.ret)
  /\ (lex_call.op = "process" /\ lex_call.exc = "none") =>
       \A i \in 1..Len(lex_call.ret) : ~TokenHoldsSentinel(lex_call.ret[i])
  /\ (lex_call.op = "_consume_escape_" /\ lex_call.exc = "none") =>
       ~HoldsSentinel(lex_call.ret)

\* consume() returned a Url for a text that ended within 'url(', and had
\* taken every codepoint of it
C37_Witness_UrlAtEnd ==
  /\ lex_call.op = "consume"
  /\ lex_call.exc = "none"
  /\ lex_call.ret.type = "Url"
  /\ lex_call.ret.raw /= <<>>
  /\ lexer.source = <<>>
  /\ lexer.errors /= <<>>
  /\ StartsWith(lex_pre, E_url_open)

(***************************************************************************)
(* Every entry point on lists of values, rules and declarations            *)
(***************************************************************************)
StoredLists ==
  TokenLists(ValueTokens, MaxTokens) \cup TokenLists(StyleTokens, MaxTokens)
    \cup {<<T_ident, T_colon>> \o value : value \in TokenLists(ValueTokens, MaxTokens - 1)}

InitStored ==
  /\ supplied \in StoredLists
  /\ parse_call = ParseCall("none", None, "none")
  /\ parse_pre = <<>>
  /\ parse_errors = <<>>
  /\ loop = "none"
  /\ ahead = None
  /\ lexer = Lexer(<<>>)
  /\ lex_call = NoLexCall
  /\ lex_pre = <<>>
  /\ css_rules = <<>>
  /\ origin_clean = TRUE
  /\ disallow_modification = FALSE
  /\ constructed = TRUE
  /\ created_by = "__init__"
  /\ call = Call("__init__", <<>>, 0, "none", None)
  /\ pre_rules = <<>>

SpecStored == InitStored /\ [][NextConsume]_vars

\* an EOF in a component value: the token itself, or a token within the
\* value of a Block or FunctionBlock
RECURSIVE EOFInComponent(_)
EOFInComponent(c) ==
  CASE c.type = "Block" ->
         c.token.type = "EOF" \/ \E i \in 1..Len(c.value) : EOFInComponent(c.value[i])
    [] c.type = "FunctionBlock" -> \E i \in 1..Len(c.value) : EOFInComponent(c.value[i])
    [] OTHER -> c.type = "EOF"

EOFInValues(values) == \E i \in 1..Len(values) : EOFInComponent(values[i])

\* an EOF in a rule (its prelude or block), a declaration (its value) or a
\* component value
EOFInItem(item) ==
  CASE item.type \in {"AtRule", "QualifiedRule"} ->
         EOFInValues(item.prelude) \/ EOFInComponent(item.block)
    [] item.type = "Decleration" -> EOFInValues(item.value)
    [] OTHER -> EOFInComponent(item)

ReturnsOneItem ==
  parse_call.op \in {"parse_component_value", "parse_rule", "parse_decleration",
                     "consume_block", "consume_at_rule", "consume_qualified_rule"}

ReturnsGroups == parse_call.op = "parse_comma_seperated"

\* C38: on a list of tokens that holds no EOF, nothing an entry point of
\* the parser returns holds an EOF: no value of a Block or FunctionBlock,
\* no prelude of a rule, no value of a declaration, no comma-separated
\* group and no list of component values, rules or declarations.  The list
\* that is left holds none either.
C38_NoEOFStored ==
  /\ \A i \in 1..Len(supplied) : supplied[i].type /= "EOF"
  /\ (parse_call.op /= "none" /\ parse_call.exc = "none") =>
       IF ReturnsOneItem THEN ~EOFInItem(parse_call.ret)
       ELSE IF ReturnsGroups
       THEN \A g \in 1..Len(parse_call.ret) : ~EOFInValues(parse_call.ret[g])
       ELSE \A i \in 1..Len(parse_call.ret) : ~EOFInItem(parse_call.ret[i])

\* consume_block came to the end of the list within a function within the
\* block, and returned the block with what it had
C38_Witness_EndWithinBlock ==
  /\ parse_call.op = "consume_block"
  /\ parse_call.exc = "none"
  /\ Len(parse_errors) >= 2
  /\ supplied = <<>>
  /\ \E i \in 1..Len(parse_call.ret.value) :
       /\ parse_call.ret.value[i].type = "FunctionBlock"
       /\ parse_call.ret.value[i].value /= <<>>

(***************************************************************************)
(* Style blocks put together from declarations, rules and separators       *)
(***************************************************************************)
MaxItems == 4

T_ident_b == Token("Ident", <<"b">>)
T_at_keyword_b == Token("AtKeyword", <<"b">>)

\* 'a:a;'  'b:a'  '@a;'  '@b{}'  '&{}'  '&a{}'  ' '  ';'  ':;'
StyleItems ==
  {<<T_ident, T_colon, T_ident, T_semicolon>>, <<T_ident_b, T_colon, T_ident>>,
   <<T_at_keyword, T_semicolon>>, <<T_at_keyword_b, T_lcurly, T_rcurly>>,
   <<T_amp, T_lcurly, T_rcurly>>, <<T_amp, T_ident, T_lcurly, T_rcurly>>,
   <<T_whitespace>>, <<T_semicolon>>, <<T_colon, T_semicolon>>}

RECURSIVE StyleBlockLists(_)
StyleBlockLists(n) ==
  IF n = 0 THEN {<<>>}
  ELSE LET shorter == StyleBlockLists(n - 1)
       IN shorter \cup {list \o item : list \in shorter, item \in StyleItems}

InitStyle ==
  /\ supplied \in StyleBlockLists(MaxItems)
  /\ parse_call = ParseCall("none", None, "none")
  /\ parse_pre = <<>>
  /\ parse_errors = <<>>
  /\ loop = "none"
  /\ ahead = None
  /\ lexer = Lexer(<<>>)
  /\ lex_call = NoLexCall
  /\ lex_pre = <<>>
  /\ css_rules = <<>>
  /\ origin_clean = TRUE
  /\ disallow_modification = FALSE
  /\ constructed = TRUE
  /\ created_by = "__init__"
  /\ call = Call("__init__", <<>>, 0, "none", None)
  /\ pre_rules = <<>>

NextStyle == ParseStyleBlock \/ ParseDeclList \/ ParseStylesheetText \/ StyleBlockOfRule

SpecStyle == InitStyle /\ [][NextStyle]_vars

\* the number of component values from position i to position j
RECURSIVE Components(_, _, _)
Components(tokens, i, j) ==
  IF i > j THEN 0 ELSE 1 + Components(tokens, ComponentEnd(tokens, i, <<>>) + 1, j)

Item(kind, name, prelude) == [kind |-> kind, name |-> name, prelude |-> prelude]

\* the position of the '{' or ';' that ends the prelude of the rule that
\* starts at position i, one past the end of the list when there is none
PreludeStop(tokens, i) ==
  LET stop == IF tokens[i].type = "AtKeyword"
              THEN TopLevelFind(tokens, i + 1, {"Semicolon", "LCurlyBracket"})
              ELSE TopLevelFind(tokens, i, {"LCurlyBracket"})
  IN IF stop = 0 THEN Len(tokens) + 1 ELSE stop

\* the declarations and rules of a style block in the order of the source,
\* from position i on: an at-keyword starts an at-rule, an identifier a
\* declaration that runs to the next ';' outside a block, '&' a qualified
\* rule; whitespace and ';' separate; anything else is dropped up to the
\* next ';'
RECURSIVE Items(_, _)
Items(tokens, i) ==
  IF i > Len(tokens) THEN <<>>
  ELSE LET t == tokens[i]
           semicolon == TopLevelFind(tokens, i + 1, {"Semicolon"})
       IN CASE t.type \in {"Whitespace", "Semicolon"} -> Items(tokens, i + 1)
            [] t.type = "AtKeyword" ->
                 <<Item("AtRule", t.raw,
                        Components(tokens, i + 1, PreludeStop(tokens, i) - 1))>>
                   \o Items(tokens, RuleEnd(tokens, i) + 1)
            [] t.type = "Ident" ->
                 <<Item("Decleration", t.raw, 0)>>
                   \o (IF semicolon = 0 THEN <<>> ELSE Items(tokens, semicolon))
            [] t.type = "Delim" /\ t.raw = <<"&">> ->
                 IF RuleEnd(tokens, i) = 0 THEN <<>>
                 ELSE <<Item("QualifiedRule", <<>>,
                             Components(tokens, i, PreludeStop(tokens, i) - 1))>>
                        \o Items(tokens, RuleEnd(tokens, i) + 1)
            [] OTHER -> IF semicolon = 0 THEN <<>> ELSE Items(tokens, semicolon)

\* what a returned object is
Described(object) ==
  CASE object.type = "Decleration" -> Item("Decleration", object.name, 0)
    [] object.type = "AtRule" -> Item("AtRule", object.name, Len(object.prelude))
    [] object.type = "QualifiedRule" -> Item("QualifiedRule", <<>>, Len(object.prelude))
    [] OTHER -> Item("other", <<>>, 0)

IsDeclarationItem(item) == item.kind = "Decleration"

IsRuleItem(item) == item.kind \in {"AtRule", "QualifiedRule"}

StyleBlockReturned ==
  /\ parse_call.op \in {"parse_style_block", "style_block_of_rule"}
  /\ parse_call.exc = "none"

\* C39: what consume_style_block returns is the declarations of the block
\* in the order of the source, followed by its at-rules and '&' rules in
\* the order of the source: a declaration that follows a nested rule in the
\* source stands before that rule in the result, and no ';' and no
\* whitespace is part of the result.
C39_StyleBlockOrder ==
  StyleBlockReturned =>
    /\ [i \in 1..Len(parse_call.ret) |-> Described(parse_call.ret[i])]
         = SelectSeq(Items(parse_pre, 1), IsDeclarationItem)
             \o SelectSeq(Items(parse_pre, 1), IsRuleItem)
    /\ \A i \in 1..Len(parse_call.ret) :
         parse_call.ret[i].type \in {"Decleration", "AtRule", "QualifiedRule"}

\* a style block that was written rule, declaration, rule, declaration came
\* back as the two declarations and then the two rules
C39_Witness_Interleaved ==
  /\ StyleBlockReturned
  /\ Len(parse_call.ret) = 4
  /\ parse_pre[1].type \in {"AtKeyword", "Delim"}
  /\ parse_call.ret[1].type = "Decleration"
  /\ parse_call.ret[2].type = "Decleration"
  /\ parse_call.ret[1].name /= parse_call.ret[2].name
  /\ parse_call.ret[3].type = "QualifiedRule"
  /\ parse_call.ret[4].type = "AtRule"
  /\ parse_pre[Len(parse_pre)].type = "Ident"

(***************************************************************************)
(* Declarations without a value (checked under SpecParse)                  *)
(***************************************************************************)
\* nothing but whitespace follows the colon
NothingAfterColon(tokens) == Trimmed(AfterColon(tokens)) = <<>>

\* '!' 'important' and whitespace is all that follows the colon
OnlyImportantAfterColon(tokens) ==
  /\ EndsWithPair(Trimmed(AfterColon(tokens)))
  /\ Trimmed(WithoutPair(Trimmed(AfterColon(tokens)))) = <<>>

\* C40: for a declaration with nothing but whitespace after its colon
\* ('color:') and for one whose value is '!important' alone
\* ('color: !important') consume_decleration returns a Declaration with an
\* empty value, important being TRUE in the second case, and does not
\* raise.  The code breaks it: both trimming loops read value[-1] without
\* looking at the length of the list, and end in IndexError.
C40_EmptyValue ==
  /\ ParseCalled("parse_decleration")
  /\ HasNameAndColon(parse_pre)
  /\ NothingAfterColon(parse_pre) \/ OnlyImportantAfterColon(parse_pre)
  => /\ parse_call.exc = "none"
     /\ parse_call.ret.type = "Decleration"
     /\ parse_call.ret.value = <<>>
     /\ parse_call.ret.important = OnlyImportantAfterColon(parse_pre)

====
